---- MODULE Spec2Model ----
(***************************************************************************)
(* Model of the ATB battle engine of rpg-engine: Character and Spell       *)
(* (characters.py) and the Battle.run loop with its turn resolution        *)
(* (battle.py).                                                            *)
(*                                                                         *)
(* Spec      : Battle.run from a set of encounters, one step per tick or   *)
(*             per resolved turn (the loop blocks on the player's prompt). *)
(* UnitSpec  : the Character methods called in any order with arguments    *)
(*             drawn from bounded sets.                                    *)
(* SpellSpec : Spell.calculate_damage on arguments drawn from bounded sets.*)
(***************************************************************************)
EXTENDS Integers, Sequences, FiniteSets, TLC

VARIABLES
    player,        \* Battle.player : Character
    enemy,         \* Battle.enemy  : Character
    turn_count,    \* Battle.turn_count
    battle_log,    \* Battle.battle_log
    pc,            \* position of Battle.run
    result,        \* <<>> while run has not returned, <<b>> once it returned b
    called,        \* the name of the last function called
    last           \* that call's arguments (args) and return value (ret)

vars == <<called, pc, player, enemy, turn_count, battle_log, result, last>>

(***************************************************************************)
(* Bounds of the model.                                                    *)
(***************************************************************************)
\* Battle.run is explored up to this many iterations of its while loop.
MaxTurns == 13
\* UnitSpec: stats and arguments of the Character methods range over 0..MaxStat.
MaxStat == 3

(***************************************************************************)
(* Strings that the code lower-cases are sequences of code points; the     *)
(* others (names, dictionary keys) are opaque strings.                     *)
(***************************************************************************)
None == << -1 >>
\* Python truthiness of an Optional[str]: None and "" are falsy.
Truthy(s) == s # None /\ s # << >>

\* str.lower() as CPython 3.11 computes it (Unicode 14.0.0).  The tables are
\* those of its Unicode database.
\* <<first, last, step, delta>>: the code points first, first + step, ...,
\* last have the one-character lower case c + delta.
ToLowerRanges ==
    {
      <<65, 90, 1, 32>>, <<192, 214, 1, 32>>, <<216, 222, 1, 32>>, <<256, 302, 2, 1>>,
      <<306, 310, 2, 1>>, <<313, 327, 2, 1>>, <<330, 374, 2, 1>>, <<376, 376, 1, -121>>,
      <<377, 381, 2, 1>>, <<385, 385, 1, 210>>, <<386, 388, 2, 1>>, <<390, 390, 1, 206>>,
      <<391, 391, 1, 1>>, <<393, 394, 1, 205>>, <<395, 395, 1, 1>>, <<398, 398, 1, 79>>,
      <<399, 399, 1, 202>>, <<400, 400, 1, 203>>, <<401, 401, 1, 1>>, <<403, 403, 1, 205>>,
      <<404, 404, 1, 207>>, <<406, 406, 1, 211>>, <<407, 407, 1, 209>>, <<408, 408, 1, 1>>,
      <<412, 412, 1, 211>>, <<413, 413, 1, 213>>, <<415, 415, 1, 214>>, <<416, 420, 2, 1>>,
      <<422, 422, 1, 218>>, <<423, 423, 1, 1>>, <<425, 425, 1, 218>>, <<428, 428, 1, 1>>,
      <<430, 430, 1, 218>>, <<431, 431, 1, 1>>, <<433, 434, 1, 217>>, <<435, 437, 2, 1>>,
      <<439, 439, 1, 219>>, <<440, 440, 1, 1>>, <<444, 444, 1, 1>>, <<452, 452, 1, 2>>,
      <<453, 453, 1, 1>>, <<455, 455, 1, 2>>, <<456, 456, 1, 1>>, <<458, 458, 1, 2>>,
      <<459, 475, 2, 1>>, <<478, 494, 2, 1>>, <<497, 497, 1, 2>>, <<498, 500, 2, 1>>,
      <<502, 502, 1, -97>>, <<503, 503, 1, -56>>, <<504, 542, 2, 1>>, <<544, 544, 1, -130>>,
      <<546, 562, 2, 1>>, <<570, 570, 1, 10795>>, <<571, 571, 1, 1>>, <<573, 573, 1, -163>>,
      <<574, 574, 1, 10792>>, <<577, 577, 1, 1>>, <<579, 579, 1, -195>>, <<580, 580, 1, 69>>,
      <<581, 581, 1, 71>>, <<582, 590, 2, 1>>, <<880, 882, 2, 1>>, <<886, 886, 1, 1>>,
      <<895, 895, 1, 116>>, <<902, 902, 1, 38>>, <<904, 906, 1, 37>>, <<908, 908, 1, 64>>,
      <<910, 911, 1, 63>>, <<913, 929, 1, 32>>, <<931, 939, 1, 32>>, <<975, 975, 1, 8>>,
      <<984, 1006, 2, 1>>, <<1012, 1012, 1, -60>>, <<1015, 1015, 1, 1>>, <<1017, 1017, 1, -7>>,
      <<1018, 1018, 1, 1>>, <<1021, 1023, 1, -130>>, <<1024, 1039, 1, 80>>, <<1040, 1071, 1, 32>>,
      <<1120, 1152, 2, 1>>, <<1162, 1214, 2, 1>>, <<1216, 1216, 1, 15>>, <<1217, 1229, 2, 1>>,
      <<1232, 1326, 2, 1>>, <<1329, 1366, 1, 48>>, <<4256, 4293, 1, 7264>>, <<4295, 4295, 1, 7264>>,
      <<4301, 4301, 1, 7264>>, <<5024, 5103, 1, 38864>>, <<5104, 5109, 1, 8>>, <<7312, 7354, 1, -3008>>,
      <<7357, 7359, 1, -3008>>, <<7680, 7828, 2, 1>>, <<7838, 7838, 1, -7615>>, <<7840, 7934, 2, 1>>,
      <<7944, 7951, 1, -8>>, <<7960, 7965, 1, -8>>, <<7976, 7983, 1, -8>>, <<7992, 7999, 1, -8>>,
      <<8008, 8013, 1, -8>>, <<8025, 8031, 2, -8>>, <<8040, 8047, 1, -8>>, <<8072, 8079, 1, -8>>,
      <<8088, 8095, 1, -8>>, <<8104, 8111, 1, -8>>, <<8120, 8121, 1, -8>>, <<8122, 8123, 1, -74>>,
      <<8124, 8124, 1, -9>>, <<8136, 8139, 1, -86>>, <<8140, 8140, 1, -9>>, <<8152, 8153, 1, -8>>,
      <<8154, 8155, 1, -100>>, <<8168, 8169, 1, -8>>, <<8170, 8171, 1, -112>>, <<8172, 8172, 1, -7>>,
      <<8184, 8185, 1, -128>>, <<8186, 8187, 1, -126>>, <<8188, 8188, 1, -9>>, <<8486, 8486, 1, -7517>>,
      <<8490, 8490, 1, -8383>>, <<8491, 8491, 1, -8262>>, <<8498, 8498, 1, 28>>, <<8544, 8559, 1, 16>>,
      <<8579, 8579, 1, 1>>, <<9398, 9423, 1, 26>>, <<11264, 11311, 1, 48>>, <<11360, 11360, 1, 1>>,
      <<11362, 11362, 1, -10743>>, <<11363, 11363, 1, -3814>>, <<11364, 11364, 1, -10727>>, <<11367, 11371, 2, 1>>,
      <<11373, 11373, 1, -10780>>, <<11374, 11374, 1, -10749>>, <<11375, 11375, 1, -10783>>, <<11376, 11376, 1, -10782>>,
      <<11378, 11378, 1, 1>>, <<11381, 11381, 1, 1>>, <<11390, 11391, 1, -10815>>, <<11392, 11490, 2, 1>>,
      <<11499, 11501, 2, 1>>, <<11506, 11506, 1, 1>>, <<42560, 42604, 2, 1>>, <<42624, 42650, 2, 1>>,
      <<42786, 42798, 2, 1>>, <<42802, 42862, 2, 1>>, <<42873, 42875, 2, 1>>, <<42877, 42877, 1, -35332>>,
      <<42878, 42886, 2, 1>>, <<42891, 42891, 1, 1>>, <<42893, 42893, 1, -42280>>, <<42896, 42898, 2, 1>>,
      <<42902, 42920, 2, 1>>, <<42922, 42922, 1, -42308>>, <<42923, 42923, 1, -42319>>, <<42924, 42924, 1, -42315>>,
      <<42925, 42925, 1, -42305>>, <<42926, 42926, 1, -42308>>, <<42928, 42928, 1, -42258>>, <<42929, 42929, 1, -42282>>,
      <<42930, 42930, 1, -42261>>, <<42931, 42931, 1, 928>>, <<42932, 42946, 2, 1>>, <<42948, 42948, 1, -48>>,
      <<42949, 42949, 1, -42307>>, <<42950, 42950, 1, -35384>>, <<42951, 42953, 2, 1>>, <<42960, 42960, 1, 1>>,
      <<42966, 42968, 2, 1>>, <<42997, 42997, 1, 1>>, <<65313, 65338, 1, 32>>, <<66560, 66599, 1, 40>>,
      <<66736, 66771, 1, 40>>, <<66928, 66964, 2, 39>>, <<66929, 66938, 1, 39>>, <<66941, 66954, 1, 39>>,
      <<66957, 66962, 1, 39>>, <<66965, 66965, 1, 39>>, <<68736, 68786, 1, 64>>, <<71840, 71871, 1, 32>>,
      <<93760, 93791, 1, 32>>, <<125184, 125217, 1, 34>> }
\* A range of code points first..last is written as the one number
\* first * 1024 + (last - first).
InRange(c, range) ==
    (range \div 1024) <= c /\ c <= (range \div 1024) + (range % 1024)
\* the code points with the property Case_Ignorable
CaseIgnorableRanges ==
    {
      39936, 47104, 59392, 96256, 98304, 172032, 177152, 179200,
      184320, 187393, 704703, 905217, 911360, 921601, 924672, 1182726,
      1401856, 1408000, 1459244, 1506304, 1508353, 1511425, 1514496, 1560576,
      1572869, 1589258, 1601536, 1638400, 1649684, 1687552, 1792007, 1801225,
      1812483, 1850368, 1852416, 1884186, 2005002, 2075658, 2091008, 2094080,
      2119703, 2188290, 2236416, 2244609, 2252807, 2303033, 2418688, 2420736,
      2425863, 2438144, 2442246, 2459649, 2475008, 2491392, 2551808, 2556931,
      2569216, 2590721, 2619392, 2622465, 2682880, 2688001, 2694145, 2698242,
      2704384, 2736129, 2741248, 2753537, 2813952, 2819076, 2825217, 2831360,
      2852865, 2877445, 2884608, 2945024, 2948096, 2950147, 2962432, 2970625,
      2983937, 3016704, 3080192, 3093504, 3145728, 3149824, 3207168, 3209218,
      3217410, 3221507, 3232769, 3246081, 3277824, 3338240, 3341312, 3348480,
      3354625, 3377153, 3407873, 3468289, 3474435, 3486720, 3508225, 3539968,
      3614720, 3622914, 3627008, 3720192, 3723270, 3741704, 3851264, 3854344,
      3872768, 3874821, 3956737, 3986432, 3988480, 3990528, 4047885, 4063236,
      4069377, 4076554, 4088867, 4134912, 4240387, 4245509, 4252673, 4256769,
      4284417, 4290562, 4310019, 4327424, 4330497, 4338688, 4355072, 4452352,
      5075970, 6047746, 6080513, 6113281, 6146049, 6213633, 6216710, 6232064,
      6235146, 6249472, 6255616, 6302724, 6360064, 6427649, 6464512, 6586370,
      6593537, 6604800, 6611970, 6839297, 6843392, 6903808, 6905862, 6914048,
      6916096, 6919175, 6933513, 6945792, 6986752, 6995998, 7077891, 7131136,
      7133188, 7139328, 7145472, 7187464, 7208961, 7243779, 7249921, 7252994,
      7313408, 7315457, 7320576, 7322626, 7385095, 7395329, 7462917, 7553026,
      7557132, 7571462, 7582720, 7589888, 7593985, 7647294, 7725056, 7760996,
      8320000, 8322050, 8336386, 8352770, 8369154, 8385537, 8399876, 8413185,
      8425472, 8428544, 8431620, 8486916, 8493065, 8504320, 8518656, 8536076,
      8601632, 11661313, 11779074, 11910144, 11926528, 12025887, 12106752, 12588032,
      12625923, 12633092, 12643328, 12739589, 12840962, 41964544, 43245573, 43528192,
      43629571, 43634697, 43645952, 43675651, 43761665, 43778081, 43892736, 43917314,
      44025858, 44032001, 44042240, 44046336, 44051456, 44078081, 44085248, 44240897,
      44269585, 44301312, 44341255, 44375050, 44433410, 44485632, 44488707, 44494849,
      44514304, 44536833, 44606469, 44614657, 44618753, 44633088, 44642304, 44679168,
      44691456, 44744704, 44746754, 44751873, 44759041, 44762112, 44790784, 44806145,
      44813313, 44816384, 44919812, 44934146, 45061120, 45064192, 45069312, 65828864,
      65980432, 66584591, 66604032, 66617359, 66668544, 66671616, 66845696, 66853888,
      66861056, 66873344, 66910208, 66912256, 66961408, 67008513, 67079168, 67101698,
      67630080, 67862528, 68016132, 69074949, 69082153, 69126152, 69731330, 69735425,
      69742595, 69787650, 69794816, 69964801, 70553603, 70953985, 71112714, 71174147,
      71304192, 71360526, 71417856, 71420929, 71433218, 71486467, 71492609, 71496704,
      71501824, 71513088, 71565314, 71605252, 71611399, 71683072, 71696385, 71751688,
      71771139, 71777280, 71875586, 71880704, 71882753, 71890944, 72055808, 72059911,
      72089601, 72150017, 72155136, 72194054, 72204292, 72409095, 72419330, 72423424,
      72448000, 72535045, 72542208, 72547329, 72550401, 72796163, 72806401, 72809473,
      72839169, 72928263, 72938496, 72940545, 73051136, 73053184, 73056261, 73063424,
      73167874, 73172995, 73178116, 73448456, 73458689, 73722881, 73725952, 73731072,
      73879555, 73885697, 73891840, 73925641, 73976837, 73985027, 73997312, 74007557,
      74015746, 74065932, 74080257, 74498054, 74506245, 74513408, 74598421, 74622982,
      74631169, 74634241, 74761221, 74770432, 74772481, 74775558, 74783744, 74858497,
      74863616, 74865664, 75222017, 80789512, 95141892, 95207430, 95223811, 96287744,
      96353296, 96436225, 96439297, 113229827, 113234950, 113243137, 116552705, 116555779,
      121372717, 121421846, 122002434, 122014735, 122033158, 122071043, 122226690, 124256310,
      124316721, 124376064, 124391424, 124414980, 124421134, 125829126, 125837328, 125856774,
      125864961, 125868036, 126140429, 126531584, 126595075, 128139270, 128258055, 131066884,
      939525120, 939556959, 939786479 }
\* the code points with the property Cased
CasedRanges ==
    {
      66585, 99353, 174080, 185344, 190464, 196630, 221214, 254146,
      454659, 463055, 676899, 720897, 753668, 857088, 901123, 907265,
      911363, 916480, 923648, 925698, 929792, 931859, 953426, 1039498,
      1190053, 1360933, 1409064, 4358181, 4398080, 4404224, 4407338, 4453378,
      5144661, 5234693, 7471112, 7487530, 7533570, 7602367, 7864597, 8151045,
      8159269, 8200197, 8208391, 8217600, 8219648, 8221696, 8223774, 8257588,
      8312838, 8321024, 8325122, 8329222, 8339459, 8345605, 8355852, 8374274,
      8378374, 8504320, 8518656, 8536076, 8652800, 8657920, 8661001, 8672256,
      8676356, 8687616, 8689664, 8691712, 8693763, 8698885, 8709120, 8712195,
      8721412, 8730624, 8749087, 8784897, 9623603, 11534564, 11774979, 11782145,
      11796517, 11836416, 11842560, 43581485, 43647005, 43812965, 43920387, 43925562,
      43991041, 43994112, 43996164, 44028929, 44032002, 44875818, 44920844, 44941391,
      65798150, 65817604, 66880537, 66913305, 68157519, 68337699, 68378659, 68534282,
      68546574, 68562950, 68571137, 68574218, 68586510, 68602886, 68611073, 69074944,
      69078018, 69082153, 69126152, 70385714, 70451250, 73564223, 96010303, 122683476,
      122771526, 122845185, 122849280, 122852353, 122856451, 122861579, 122874880, 122876934,
      122885184, 122952707, 122958855, 122968070, 122976283, 123005955, 123011076, 123017216,
      123021318, 123029843, 123379736, 123406360, 123432990, 123465752, 123492382, 123525144,
      123551774, 123584536, 123611166, 123643928, 123670535, 125566985, 125578259, 128188483,
      130334745, 130367513, 130400281 }

IsCaseIgnorable(c) == \E range \in CaseIgnorableRanges : InRange(c, range)
IsCased(c) == \E range \in CasedRanges : InRange(c, range)

\* c when no delta applies to it, and else c moved by the one that does
moved(c, deltas) == IF deltas = {} THEN c ELSE c + (CHOOSE delta \in deltas : TRUE)

\* str.lower() of a string of one character.  The lower case of U+0130 is
\* two code points; every other character has a lower case of one.
lower_char(c) ==
    IF c < 128 THEN (IF c \in 65..90 THEN <<c + 32>> ELSE <<c>>)
    ELSE IF c = 304 THEN <<105, 775>>
    ELSE <<moved(c, { r[4] : r \in { r \in ToLowerRanges :
                        r[1] <= c /\ c <= r[2] /\ (c - r[1]) % r[3] = 0 } })>>

\* the capital sigma at s[i] is final, given the positions `others` of the
\* other characters that are not case-ignorable: the nearest of them before
\* it is cased and the nearest after it, if any, is not
final_among(s, i, others) ==
    LET before == { j \in others : j < i }
        after == { j \in others : j > i }
        nearest == { j \in before : \A k \in before : k <= j }
                   \cup { j \in after : \A k \in after : j <= k }
    IN /\ \E j \in others : j < i
       /\ \A j \in nearest : IsCased(s[j]) <=> j < i

\* the capital sigma at s[i] is final: a cased character comes before it and
\* none after it, case-ignorable characters skipped
final_sigma(s, i) ==
    final_among(s, i, { j \in 1..Len(s) : j # i /\ ~IsCaseIgnorable(s[j]) })

RECURSIVE lower_from(_, _)
lower_from(s, i) ==
    IF i > Len(s) THEN << >>
    ELSE (IF s[i] = 931
          THEN (IF final_sigma(s, i) THEN <<962>> ELSE <<963>>)
          ELSE lower_char(s[i])) \o lower_from(s, i + 1)

lower(s) == lower_from(s, 1)

fire == <<102, 105, 114, 101>>
ice == <<105, 99, 101>>
thunder == <<116, 104, 117, 110, 100, 101, 114>>
healing == <<104, 101, 97, 108, 105, 110, 103>>

Min(a, b) == IF a <= b THEN a ELSE b
Max(a, b) == IF a >= b THEN a ELSE b

(***************************************************************************)
(* characters.py : Character                                               *)
(***************************************************************************)
Character(name, hp, mp, strength, magic, speed) ==
    [name |-> name, max_hp |-> hp, hp |-> hp, max_mp |-> mp, mp |-> mp,
     strength |-> strength, magic |-> magic, speed |-> speed,
     atb_gauge |-> 0, weakness |-> None]

is_alive(c) == c.hp > 0

\* Each mutating method yields the character after the call (c) and the
\* value returned (ret).

\* faulty variant of take_damage: the requested damage is returned
take_damage_returns_requested(c, damage) ==
    [c |-> [c EXCEPT !.hp = Max(0, c.hp - damage)], ret |-> damage]

\* faulty variant of take_damage: hp is not floored at 0
take_damage_keeps_negative(c, damage) ==
    [c |-> [c EXCEPT !.hp = c.hp - damage], ret |-> Min(damage, c.hp)]

take_damage(c, damage) ==
    [c |-> [c EXCEPT !.hp = Max(0, c.hp - damage)], ret |-> Min(damage, c.hp)]

\* faulty variant of heal: hp is not capped at max_hp
heal_uncapped(c, amount) ==
    [c |-> [c EXCEPT !.hp = c.hp + amount], ret |-> amount]

heal(c, amount) ==
    LET new_hp == Min(c.max_hp, c.hp + amount)
    IN [c |-> [c EXCEPT !.hp = new_hp], ret |-> new_hp - c.hp]

\* faulty variant of use_mp: the cost is not deducted
use_mp_free(c, cost) ==
    IF c.mp >= cost THEN [c |-> c, ret |-> TRUE] ELSE [c |-> c, ret |-> FALSE]

\* faulty variant of use_mp: mp > cost instead of mp >= cost
use_mp_strict(c, cost) ==
    IF c.mp > cost
    THEN [c |-> [c EXCEPT !.mp = c.mp - cost], ret |-> TRUE]
    ELSE [c |-> c, ret |-> FALSE]

use_mp(c, cost) ==
    IF c.mp >= cost
    THEN [c |-> [c EXCEPT !.mp = c.mp - cost], ret |-> TRUE]
    ELSE [c |-> c, ret |-> FALSE]

restore_mp(c, amount) ==
    LET new_mp == Min(c.max_mp, c.mp + amount)
    IN [c |-> [c EXCEPT !.mp = new_mp], ret |-> new_mp - c.mp]

\* faulty variant of update_atb: a full gauge is reported but not clamped
update_atb_unclamped(c, increment) ==
    LET g == c.atb_gauge + increment * c.speed
    IN [c |-> [c EXCEPT !.atb_gauge = g], ret |-> g >= 100]

update_atb(c, increment) ==
    LET g == c.atb_gauge + increment * c.speed
    IN IF g >= 100
       THEN [c |-> [c EXCEPT !.atb_gauge = 100], ret |-> TRUE]
       ELSE [c |-> [c EXCEPT !.atb_gauge = g], ret |-> FALSE]

reset_atb(c) == [c EXCEPT !.atb_gauge = 0]

(***************************************************************************)
(* characters.py : Spell and the SPELLS catalog                            *)
(***************************************************************************)
Spell(name, mp_cost, power, element) ==
    [name |-> name, mp_cost |-> mp_cost, power |-> power, element |-> element]

calculate_damage(spell, caster_magic, target_weakness) ==
    LET base_damage == spell.power + (caster_magic * 2)
    IN IF Truthy(spell.element) /\ Truthy(target_weakness)
          /\ lower(spell.element) = lower(target_weakness)
       THEN base_damage * 2
       ELSE base_damage

SPELLS ==
    [k \in {"Fire", "Ice", "Thunder", "Cure"} |->
        CASE k = "Fire" -> Spell("Fire", 10, 20, fire)
          [] k = "Ice" -> Spell("Blizzard", 10, 20, ice)
          [] k = "Thunder" -> Spell("Thunder", 10, 20, thunder)
          [] k = "Cure" -> Spell("Cure", 8, 30, healing)]

(***************************************************************************)
(* battle.py : Battle.  The operations take the battle's fields and yield  *)
(* the fields after the call together with the value returned.  A message  *)
(* is the data its f-string formats.                                       *)
(***************************************************************************)
Message(actor, kind, spell, amount, weakness_bonus) ==
    [actor |-> actor, kind |-> kind, spell |-> spell, amount |-> amount,
     weakness_bonus |-> weakness_bonus]

log_action(battle_log_, message) == Append(battle_log_, message)

\* random.randint(0, 5)
MaxBonus == 5
\* random.random() < 0.7, in tenths
AttackThreshold == 7
\* self.enemy.mp < 10
MinCastMp == 10

Outcome(p, e, log, success, message) ==
    [player |-> p, enemy |-> e, battle_log |-> log, success |-> success,
     message |-> message]

\* faulty variant of player_attack: the random bonus is left out
player_attack_ignores_bonus(p, e, log, bonus) ==
    LET base_damage == p.strength
        td == take_damage(e, base_damage)
        message == Message(p.name, "attack", "", td.ret, FALSE)
    IN Outcome(p, td.c, log_action(log, message), TRUE, message)

player_attack(p, e, log, bonus) ==
    LET base_damage == p.strength + bonus
        td == take_damage(e, base_damage)
        message == Message(p.name, "attack", "", td.ret, FALSE)
    IN Outcome(p, td.c, log_action(log, message), TRUE, message)

\* faulty variant of player_magic: the not-enough-MP message is logged
player_magic_logs_failure(p, e, log, spell_name) ==
    IF spell_name \notin DOMAIN SPELLS
    THEN Outcome(p, e, log, FALSE, Message(p.name, "unknown_spell", spell_name, 0, FALSE))
    ELSE
      LET spell == SPELLS[spell_name]
          paid == use_mp(p, spell.mp_cost)
      IN IF ~paid.ret
         THEN LET message == Message(p.name, "not_enough_mp", spell.name, 0, FALSE)
              IN Outcome(paid.c, e, log_action(log, message), FALSE, message)
         ELSE IF spell.element = healing
         THEN LET h == heal(paid.c, spell.power)
                  message == Message(p.name, "heal", spell.name, h.ret, FALSE)
              IN Outcome(h.c, e, log_action(log, message), TRUE, message)
         ELSE LET damage == calculate_damage(spell, paid.c.magic, e.weakness)
                  td == take_damage(e, damage)
                  weakness_bonus ==
                      Truthy(spell.element) /\ Truthy(e.weakness)
                      /\ lower(spell.element) = lower(e.weakness)
                  message == Message(p.name, "cast", spell.name, td.ret, weakness_bonus)
              IN Outcome(paid.c, td.c, log_action(log, message), TRUE, message)

\* faulty variant of player_magic: the weakness flag compares the element and
\* the weakness without lower()
player_magic_flag_case_sensitive(p, e, log, spell_name) ==
    IF spell_name \notin DOMAIN SPELLS
    THEN Outcome(p, e, log, FALSE, Message(p.name, "unknown_spell", spell_name, 0, FALSE))
    ELSE
      LET spell == SPELLS[spell_name]
          paid == use_mp(p, spell.mp_cost)
      IN IF ~paid.ret
         THEN Outcome(paid.c, e, log, FALSE,
                      Message(p.name, "not_enough_mp", spell.name, 0, FALSE))
         ELSE IF spell.element = healing
         THEN LET h == heal(paid.c, spell.power)
                  message == Message(p.name, "heal", spell.name, h.ret, FALSE)
              IN Outcome(h.c, e, log_action(log, message), TRUE, message)
         ELSE LET damage == calculate_damage(spell, paid.c.magic, e.weakness)
                  td == take_damage(e, damage)
                  weakness_bonus ==
                      Truthy(spell.element) /\ Truthy(e.weakness)
                      /\ spell.element = e.weakness
                  message == Message(p.name, "cast", spell.name, td.ret, weakness_bonus)
              IN Outcome(paid.c, td.c, log_action(log, message), TRUE, message)

player_magic(p, e, log, spell_name) ==
    IF spell_name \notin DOMAIN SPELLS
    THEN Outcome(p, e, log, FALSE, Message(p.name, "unknown_spell", spell_name, 0, FALSE))
    ELSE
      LET spell == SPELLS[spell_name]
          paid == use_mp(p, spell.mp_cost)
      IN IF ~paid.ret
         THEN Outcome(paid.c, e, log, FALSE,
                      Message(p.name, "not_enough_mp", spell.name, 0, FALSE))
         ELSE IF spell.element = healing
         THEN LET h == heal(paid.c, spell.power)
                  message == Message(p.name, "heal", spell.name, h.ret, FALSE)
              IN Outcome(h.c, e, log_action(log, message), TRUE, message)
         ELSE LET damage == calculate_damage(spell, paid.c.magic, e.weakness)
                  td == take_damage(e, damage)
                  weakness_bonus ==
                      Truthy(spell.element) /\ Truthy(e.weakness)
                      /\ lower(spell.element) = lower(e.weakness)
                  message == Message(p.name, "cast", spell.name, td.ret, weakness_bonus)
              IN Outcome(paid.c, td.c, log_action(log, message), TRUE, message)

\* faulty variant of enemy_turn_from: the fallback attack spends the mp the
\* enemy has left
enemy_turn_fallback_spends_mp(catalog, p, e, log, roll, spell_key, bonus) ==
    LET attack ==
            LET base_damage == e.strength + bonus
                td == take_damage(p, base_damage)
                message == Message(e.name, "attack", "", td.ret, FALSE)
            IN Outcome(td.c, e, log_action(log, message), TRUE, message)
    IN IF roll < AttackThreshold \/ e.mp < MinCastMp
       THEN attack
       ELSE
         LET spell == catalog[spell_key]
             paid == use_mp(e, spell.mp_cost)
         IN IF paid.ret
            THEN IF spell.element = healing
                 THEN LET h == heal(paid.c, spell.power)
                          message == Message(e.name, "heal", spell.name, h.ret, FALSE)
                      IN Outcome(p, h.c, log_action(log, message), TRUE, message)
                 ELSE LET damage == calculate_damage(spell, paid.c.magic, p.weakness)
                          td == take_damage(p, damage)
                          message == Message(e.name, "cast", spell.name, td.ret, FALSE)
                      IN Outcome(td.c, paid.c, log_action(log, message), TRUE, message)
            ELSE [attack EXCEPT !.enemy = [e EXCEPT !.mp = 0]]

\* enemy_turn with the module-level dict SPELLS holding `catalog` at the call.
\* roll: random.random() in tenths; spell_key: the key of the value that
\* random.choice picks; bonus: random.randint(0, 5).
enemy_turn_from(catalog, p, e, log, roll, spell_key, bonus) ==
    LET attack ==
            LET base_damage == e.strength + bonus
                td == take_damage(p, base_damage)
                message == Message(e.name, "attack", "", td.ret, FALSE)
            IN Outcome(td.c, e, log_action(log, message), TRUE, message)
    IN IF roll < AttackThreshold \/ e.mp < MinCastMp
       THEN attack
       ELSE
         LET spell == catalog[spell_key]
             paid == use_mp(e, spell.mp_cost)
         IN IF paid.ret
            THEN IF spell.element = healing
                 THEN LET h == heal(paid.c, spell.power)
                          message == Message(e.name, "heal", spell.name, h.ret, FALSE)
                      IN Outcome(p, h.c, log_action(log, message), TRUE, message)
                 ELSE LET damage == calculate_damage(spell, paid.c.magic, p.weakness)
                          td == take_damage(p, damage)
                          message == Message(e.name, "cast", spell.name, td.ret, FALSE)
                      IN Outcome(td.c, paid.c, log_action(log, message), TRUE, message)
            ELSE attack

\* enemy_turn of the game: SPELLS is the catalog of characters.py
enemy_turn(p, e, log, roll, spell_key, bonus) ==
    enemy_turn_from(SPELLS, p, e, log, roll, spell_key, bonus)

update_atb_gauges(p, e) ==
    [player |-> update_atb(p, 1).c, enemy |-> update_atb(e, 1).c]

\* faulty variant of execute_player_turn: "wait" returns without reset_atb
execute_player_turn_wait_keeps_gauge(p, e, log, action, spell_choice, bonus) ==
    IF action = "attack"
    THEN LET o == player_attack(p, e, log, bonus)
         IN Outcome(reset_atb(o.player), o.enemy, o.battle_log, TRUE, o.message)
    ELSE IF action = "magic"
    THEN IF spell_choice # ""
         THEN LET o == player_magic(p, e, log, spell_choice)
              IN IF o.success
                 THEN Outcome(reset_atb(o.player), o.enemy, o.battle_log, TRUE, o.message)
                 ELSE Outcome(o.player, o.enemy, o.battle_log, FALSE, o.message)
         ELSE Outcome(p, e, log, FALSE, Message(p.name, "cancel", "", 0, FALSE))
    ELSE IF action = "wait"
    THEN Outcome(p, e, log, TRUE, Message(p.name, "wait", "", 0, FALSE))
    ELSE Outcome(p, e, log, FALSE, Message(p.name, "invalid", "", 0, FALSE))

\* action: what get_action_choice returned ("" for None); spell_choice: what
\* get_spell_choice returned ("" for None).
execute_player_turn(p, e, log, action, spell_choice, bonus) ==
    IF action = "attack"
    THEN LET o == player_attack(p, e, log, bonus)
         IN Outcome(reset_atb(o.player), o.enemy, o.battle_log, TRUE, o.message)
    ELSE IF action = "magic"
    THEN IF spell_choice # ""
         THEN LET o == player_magic(p, e, log, spell_choice)
              IN IF o.success
                 THEN Outcome(reset_atb(o.player), o.enemy, o.battle_log, TRUE, o.message)
                 ELSE Outcome(o.player, o.enemy, o.battle_log, FALSE, o.message)
         ELSE Outcome(p, e, log, FALSE, Message(p.name, "cancel", "", 0, FALSE))
    ELSE IF action = "wait"
    THEN Outcome(reset_atb(p), e, log, TRUE, Message(p.name, "wait", "", 0, FALSE))
    ELSE Outcome(p, e, log, FALSE, Message(p.name, "invalid", "", 0, FALSE))

execute_enemy_turn_from(catalog, p, e, log, roll, spell_key, bonus) ==
    LET o == enemy_turn_from(catalog, p, e, log, roll, spell_key, bonus)
    IN Outcome(o.player, reset_atb(o.enemy), o.battle_log, TRUE, o.message)

\* faulty variant of execute_enemy_turn: reset_atb is left out
execute_enemy_turn_keeps_gauge(p, e, log, roll, spell_key, bonus) ==
    LET o == enemy_turn(p, e, log, roll, spell_key, bonus)
    IN Outcome(o.player, o.enemy, o.battle_log, TRUE, o.message)

execute_enemy_turn(p, e, log, roll, spell_key, bonus) ==
    LET o == enemy_turn(p, e, log, roll, spell_key, bonus)
    IN Outcome(o.player, reset_atb(o.enemy), o.battle_log, TRUE, o.message)

(***************************************************************************)
(* The encounters Battle.run is started from.                              *)
(***************************************************************************)
\* main.create_player
create_player == Character("Terra", 100, 50, 16, 18, 12)

Descriptor(name, hp, mp, strength, magic, speed, weakness) ==
    [name |-> name, hp |-> hp, mp |-> mp, strength |-> strength,
     magic |-> magic, speed |-> speed, weakness |-> weakness]

\* main: the enemy Character built from a descriptor
EnemyOf(d) ==
    [Character(d.name, d.hp, d.mp, d.strength, d.magic, d.speed)
        EXCEPT !.weakness = d.weakness]

\* ai.generate_enemy: the fallback descriptors
MagitekArmor == Descriptor("Magitek Armor", 80, 20, 15, 12, 8, thunder)
SkySerpent == Descriptor("Sky Serpent", 70, 30, 12, 16, 10, ice)
WildBeast == Descriptor("Wild Beast", 60, 15, 14, 10, 9, fire)

\* Battle(player, enemy, console) accepts any two characters.  Besides the
\* game's own encounters, short ones in which several rounds, both orders of
\* a simultaneous turn and both endings happen within MaxTurns iterations.
Encounters ==
    { [player |-> create_player, enemy |-> EnemyOf(MagitekArmor)],
      [player |-> create_player, enemy |-> EnemyOf(SkySerpent)],
      [player |-> create_player, enemy |-> EnemyOf(WildBeast)],
      \* equal speeds, the weakness written in capitals
      [player |-> Character("Hero", 36, 18, 10, 2, 20),
       enemy |-> EnemyOf(Descriptor("Imp", 30, 18, 14, 3, 20, <<70, 73, 82, 69>>))],
      \* the enemy is the faster one, the player has a weakness and the
      \* enemy's weakness is the element of the healing spell
      [player |-> [Character("Squire", 45, 10, 12, 1, 20) EXCEPT !.weakness = ice],
       enemy |-> EnemyOf(Descriptor("Wasp", 25, 10, 13, 2, 24, healing))] }

\* What the input provider can hand to execute_player_turn: the action of
\* get_action_choice ("" is None), the spell of get_spell_choice ("" is None;
\* "Meteor" is no key of SPELLS) and the bonus random.randint draws.
PlayerInputs ==
    { [action |-> "attack", spell_choice |-> "", bonus |-> b] : b \in 0..MaxBonus }
    \cup { [action |-> "magic", spell_choice |-> k, bonus |-> 0] :
             k \in DOMAIN SPELLS \cup {"", "Meteor"} }
    \cup { [action |-> a, spell_choice |-> "", bonus |-> 0] : a \in {"wait", ""} }

\* The draws of enemy_turn: random.random() in tenths, the key random.choice
\* picks and the bonus of random.randint.  A draw the branch taken does not
\* make is recorded as its default.
Rolls == {6, 7}
EnemyInputsFrom(catalog, e) ==
    LET forced(r) == r < AttackThreshold \/ e.mp < MinCastMp
    IN { [roll |-> r, spell_key |-> "", bonus |-> b] :
           r \in {x \in Rolls : forced(x)}, b \in 0..MaxBonus }
       \cup UNION { { [roll |-> r, spell_key |-> k, bonus |-> b] :
                        r \in {x \in Rolls : ~forced(x)},
                        b \in IF e.mp >= catalog[k].mp_cost THEN {0} ELSE 0..MaxBonus }
                    : k \in DOMAIN catalog }

EnemyInputs(e) == EnemyInputsFrom(SPELLS, e)

Call(args, ret) == [args |-> args, ret |-> ret]

Init ==
    /\ \E en \in Encounters : player = en.player /\ enemy = en.enemy
    /\ turn_count = 0
    /\ battle_log = << >>
    /\ pc = "loop"
    /\ result = << >>
    /\ called = "Battle"
    /\ last = Call(<< >>, << >>)

(***************************************************************************)
(* Battle.run.  pc is the place the loop is at:                            *)
(*   loop           the while condition                                    *)
(*   player_first   both ready, player.speed >= enemy.speed, at the prompt *)
(*   enemy_second   ... the player's turn was executed, the enemy is alive *)
(*   enemy_first    both ready, enemy faster, before the enemy's turn      *)
(*   player_second  ... the enemy acted, the player is alive, at the prompt*)
(*   player_only    only the player is ready, at the prompt                *)
(*   enemy_only     only the enemy is ready                                *)
(*   break          a break statement was executed                         *)
(*   done           run has returned                                       *)
(***************************************************************************)
\* where run goes after update_atb_gauges
\* faulty variant of Branch: > instead of >= on the speeds
Branch_tie_to_enemy(p, e) ==
    LET player_ready == p.atb_gauge >= 100
        enemy_ready == e.atb_gauge >= 100
    IN IF player_ready /\ enemy_ready
       THEN IF p.speed > e.speed THEN "player_first" ELSE "enemy_first"
       ELSE IF player_ready THEN "player_only"
       ELSE IF enemy_ready THEN "enemy_only"
       ELSE "loop"

\* faulty variant of Branch: a plain else instead of `elif enemy_ready`
Branch_no_charging(p, e) ==
    LET player_ready == p.atb_gauge >= 100
        enemy_ready == e.atb_gauge >= 100
    IN IF player_ready /\ enemy_ready
       THEN IF p.speed >= e.speed THEN "player_first" ELSE "enemy_first"
       ELSE IF player_ready THEN "player_only"
       ELSE "enemy_only"

\* faulty variant of Branch: when both are ready the slower one goes first
Branch_slower_first(p, e) ==
    LET player_ready == p.atb_gauge >= 100
        enemy_ready == e.atb_gauge >= 100
    IN IF player_ready /\ enemy_ready
       THEN IF p.speed <= e.speed THEN "player_first" ELSE "enemy_first"
       ELSE IF player_ready THEN "player_only"
       ELSE IF enemy_ready THEN "enemy_only"
       ELSE "loop"

Branch(p, e) ==
    LET player_ready == p.atb_gauge >= 100
        enemy_ready == e.atb_gauge >= 100
    IN IF player_ready /\ enemy_ready
       THEN IF p.speed >= e.speed THEN "player_first" ELSE "enemy_first"
       ELSE IF player_ready THEN "player_only"
       ELSE IF enemy_ready THEN "enemy_only"
       ELSE "loop"

\* One iteration of the while loop up to the first turn (or to `continue`
\* when the gauges are charging).
\* One pass through the head of the loop, explored for the first `bound` ticks.
TickWithin(bound) ==
    /\ pc = "loop"
    /\ is_alive(player) /\ is_alive(enemy)
    /\ turn_count < bound
    /\ turn_count' = turn_count + 1
    /\ LET g == update_atb_gauges(player, enemy)
       IN /\ player' = g.player
          /\ enemy' = g.enemy
          /\ pc' = Branch(g.player, g.enemy)
    /\ called' = "update_atb_gauges" /\ last' = Call(<< >>, << >>)
    /\ UNCHANGED <<battle_log, result>>

Tick == TickWithin(MaxTurns)

\* execute_player_turn at the prompt `at`.  When it returns False the loop
\* takes `continue`; otherwise it goes on to `alive_next`, or to `dead_next`
\* when the enemy is no longer alive.
\* `inputs`: the choices and draws the turn is explored with.
PlayerTurnOn(inputs, at, alive_next, dead_next) ==
    /\ pc = at
    /\ \E inp \in inputs :
         LET o == execute_player_turn(player, enemy, battle_log,
                                      inp.action, inp.spell_choice, inp.bonus)
         IN /\ player' = o.player
            /\ enemy' = o.enemy
            /\ battle_log' = o.battle_log
            /\ called' = "execute_player_turn" /\ last' = Call(inp, o.success)
            /\ pc' = IF ~o.success THEN "loop"
                     ELSE IF is_alive(o.enemy) THEN alive_next ELSE dead_next
    /\ UNCHANGED <<turn_count, result>>

PlayerTurn(at, alive_next, dead_next) ==
    PlayerTurnOn(PlayerInputs, at, alive_next, dead_next)

\* execute_enemy_turn at `at`; the loop goes on to `alive_next`, or to
\* `dead_next` when the player is no longer alive.
\* `inputs`: the draws the turn is explored with.
EnemyTurnOn(inputs, at, alive_next, dead_next) ==
    /\ pc = at
    /\ \E inp \in inputs :
         LET o == execute_enemy_turn(player, enemy, battle_log,
                                     inp.roll, inp.spell_key, inp.bonus)
         IN /\ player' = o.player
            /\ enemy' = o.enemy
            /\ battle_log' = o.battle_log
            /\ called' = "execute_enemy_turn" /\ last' = Call(inp, o.message)
            /\ pc' = IF is_alive(o.player) THEN alive_next ELSE dead_next
    /\ UNCHANGED <<turn_count, result>>

EnemyTurn(at, alive_next, dead_next) ==
    EnemyTurnOn(EnemyInputs(enemy), at, alive_next, dead_next)

\* faulty variant of PlayerFirst: the enemy's is_alive check is left out
PlayerFirst_no_break == PlayerTurn("player_first", "enemy_second", "enemy_second")
\* both ready, player first (lines 253-259)
PlayerFirst == PlayerTurn("player_first", "enemy_second", "break")
EnemySecond == EnemyTurn("enemy_second", "loop", "loop")
\* both ready, enemy first (lines 260-266)
EnemyFirst == EnemyTurn("enemy_first", "player_second", "break")
PlayerSecond == PlayerTurn("player_second", "loop", "loop")
\* exactly one ready (lines 267-271)
PlayerOnly == PlayerTurn("player_only", "loop", "loop")
EnemyOnly == EnemyTurn("enemy_only", "loop", "loop")

\* The loop is left, by its condition or by a break; run returns whether the
\* player is alive.
Return ==
    /\ \/ pc = "loop" /\ ~(is_alive(player) /\ is_alive(enemy))
       \/ pc = "break"
    /\ pc' = "done"
    /\ result' = <<is_alive(player)>>
    /\ called' = "run" /\ last' = Call(<< >>, is_alive(player))
    /\ UNCHANGED <<player, enemy, turn_count, battle_log>>

Next ==
    \/ Tick
    \/ PlayerFirst
    \/ EnemySecond
    \/ EnemyFirst
    \/ PlayerSecond
    \/ PlayerOnly
    \/ EnemyOnly
    \/ Return

Spec == Init /\ [][Next]_vars

(***************************************************************************)
(* ai.py : generate_enemy, and main's use of what it returns               *)
(***************************************************************************)
\* a dict with one more key
With(d, key, value) ==
    [k \in DOMAIN d \cup {key} |-> IF k = key THEN value ELSE d[k]]
\* a dict without a key
Without(d, key) == [k \in DOMAIN d \ {key} |-> d[k]]
\* dict.get(key, default)
Get(d, key, default) == IF key \in DOMAIN d THEN d[key] ELSE default

fallback_enemies ==
    [biome \in {"Magitek Factory", "Floating Continent"} |->
        IF biome = "Magitek Factory"
        THEN With(MagitekArmor, "description",
                  "A mechanical soldier powered by magical energy, its metal frame glows with an eerie blue light.")
        ELSE With(SkySerpent, "description",
                  "A winged serpent that rides the wind currents high above the clouds.")]
\* the default of the lookup taken when there is no model (lines 59-68)
default_without_model ==
    With(WildBeast, "description", "A mysterious creature that lurks in the shadows.")
required_fields ==
    {"name", "description", "hp", "mp", "strength", "magic", "speed", "weakness"}

\* response.text is a sequence of tokens: a code fence (three backticks), the
\* word json, a run of the white space JSON allows (blank, tab, newline,
\* carriage return), a run of other white space (form feed, no-break space,
\* U+2028, ...), other prose, or a JSON value.  A JSON value stands for the
\* Python value json.loads makes of it: an object for its dict, an array for
\* a list with the strings among its elements, a string for a str with the
\* field names that occur in it, a number for itself.  The values
\* generate_enemy handles and returns are these.
Fence == [t |-> "fence"]
JsonTag == [t |-> "json"]
Space == [t |-> "space"]
WideSpace == [t |-> "widespace"]
Prose == [t |-> "prose"]
JsonObject(d) == [t |-> "object", value |-> d]
JsonArray(elements) == [t |-> "array", elements |-> elements]
JsonString(fields) == [t |-> "string", contains |-> fields]
JsonNumber == [t |-> "number"]

\* what str.strip() removes, and what json.loads skips around the value
Whitespace == {Space.t, WideSpace.t}
JsonWhitespace == {Space.t}

\* str.lstrip, str.rstrip: the leading, the trailing characters of `chars`
\* are removed
RECURSIVE lstrip(_, _)
lstrip(text, chars) ==
    IF Len(text) > 0 /\ text[1].t \in chars THEN lstrip(Tail(text), chars) ELSE text

RECURSIVE rstrip(_, _)
rstrip(text, chars) ==
    IF Len(text) > 0 /\ text[Len(text)].t \in chars
    THEN rstrip(SubSeq(text, 1, Len(text) - 1), chars)
    ELSE text

\* str.strip(): white space at both ends is removed
strip(text) == rstrip(lstrip(text, Whitespace), Whitespace)

\* lines 88-95: the stripped text, when it starts with a fence, is cut down
\* to what stands between that fence and the next one; a "json" at the very
\* start of that part is removed, and then the white space at its ends
strip_code_block(response_text) ==
    LET result_text == strip(response_text)
    IN IF Len(result_text) > 0 /\ result_text[1].t = Fence.t
       THEN LET rest == Tail(result_text)
                fences == { i \in 1..Len(rest) : rest[i].t = Fence.t }
                stop == IF fences = {} THEN Len(rest) + 1
                        ELSE CHOOSE i \in fences : \A j \in fences : i <= j
                part == SubSeq(rest, 1, stop - 1)
            IN IF Len(part) > 0 /\ part[1].t = JsonTag.t
               THEN strip(Tail(part))
               ELSE strip(part)
       ELSE result_text

\* json.loads: one JSON value, blanks, tabs, newlines and carriage returns
\* around it allowed, and nothing else; otherwise an exception
json_loads(result_text) ==
    LET document == rstrip(lstrip(result_text, JsonWhitespace), JsonWhitespace)
    IN IF Len(document) = 1
          /\ document[1].t \in {"object", "array", "string", "number"}
       THEN [raised |-> FALSE, value |-> document[1]]
       ELSE [raised |-> TRUE, value |-> JsonNumber]

\* `field in enemy_data` (line 101): a key of a dict, an element of a list, a
\* substring of a str
contains(enemy_data, field) ==
    CASE enemy_data.t = "object" -> field \in DOMAIN enemy_data.value
      [] enemy_data.t = "array" -> field \in enemy_data.elements
      [] enemy_data.t = "string" -> field \in enemy_data.contains

\* gen: what the generator does in this call.  gen.model: initialize_gemini
\* returned a model (the API key is set); gen.raises: generate_content or
\* response.text raises; gen.text: the tokens of response.text.
\* The value returned is a dict or, when json.loads gave a list or a str that
\* passes the test of line 101, that list or str.
generate_enemy(biome, gen) ==
    IF ~gen.model
    THEN JsonObject(Get(fallback_enemies, biome, default_without_model))
    ELSE
      LET on_error ==
              JsonObject(Get(fallback_enemies, biome, fallback_enemies["Magitek Factory"]))
          loaded == json_loads(strip_code_block(gen.text))
          enemy_data == loaded.value
      IN IF gen.raises \/ loaded.raised
         THEN on_error
         \* `field in enemy_data` raises TypeError for a number
         ELSE IF enemy_data.t = JsonNumber.t
         THEN on_error
         ELSE IF \A field \in required_fields : contains(enemy_data, field)
         THEN enemy_data
         ELSE JsonObject(Get(fallback_enemies, biome, fallback_enemies["Magitek Factory"]))

\* what generate_enemy returned is a dict: main can subscript it with a key
is_dict(enemy_data) == enemy_data.t = "object"

(***************************************************************************)
(* GenSpec: main from select_biome to the construction of the enemy.       *)
(***************************************************************************)
\* main.select_biome
biomes ==
    {"Magitek Factory", "Floating Continent", "World of Ruin",
     "Vector Imperial Base", "Phantom Forest"}

\* a descriptor as the prompt asks for it
RustGolem ==
    With(Descriptor("Rust Golem", 75, 25, 14, 11, 7, ice), "description", "A golem.")
\* the dicts json.loads can give: the one asked for, one without each field,
\* the empty one, ones with further keys, and ones with values outside what
\* the prompt asks for
GenDicts ==
    {RustGolem, [k \in {} |-> 0],
     With(RustGolem, "t", "golem"),
     With(With(RustGolem, "t", "object"), "value", 1)}
    \cup { Without(RustGolem, f) : f \in required_fields }
    \cup { [RustGolem EXCEPT !.hp = 500], [RustGolem EXCEPT !.hp = 0],
           [RustGolem EXCEPT !.mp = 0], [RustGolem EXCEPT !.strength = 99],
           [RustGolem EXCEPT !.magic = 0], [RustGolem EXCEPT !.speed = 0],
           [RustGolem EXCEPT !.weakness = <<119, 97, 116, 101, 114>>],
           [RustGolem EXCEPT !.weakness = None] }
\* the other values json.loads can give: lists and strs with all, with all
\* but one and with none of the field names, and a number
GenValues ==
    { JsonObject(d) : d \in GenDicts }
    \cup { JsonArray(required_fields), JsonArray(required_fields \ {"name"}),
           JsonArray({}) }
    \cup { JsonString(required_fields), JsonString(required_fields \ {"hp"}),
           JsonString({}) }
    \cup {JsonNumber}
GenTexts ==
    { << >>, <<Space>>, <<WideSpace>>, <<Fence>>, <<Prose>>, <<JsonTag>>,
      <<Fence, Fence>> }
    \cup UNION { { <<v>>,
                   <<Space, v, Space>>,
                   <<WideSpace, v, Space, WideSpace>>,
                   <<Fence, JsonTag, WideSpace, v, WideSpace, Fence>>,
                   <<Fence, WideSpace, JsonTag, Space, v, Fence>>,
                   <<Fence, JsonTag, Space, v, Space, Fence>>,
                   <<Fence, JsonTag, v, Fence>>,
                   <<Fence, Space, v, Space, Fence>>,
                   <<Fence, Space, JsonTag, Space, v, Space, Fence>>,
                   <<Fence, JsonTag, Space, v>>,
                   <<Fence, JsonTag, Space, v, Space, Fence, Space, Prose>>,
                   <<Fence, JsonTag, Space, v, Space, Prose, Space, Fence>>,
                   <<JsonTag, Space, v>>,
                   <<Prose, Space, v>>,
                   <<Prose, Space, Fence, JsonTag, Space, v, Space, Fence>> }
                 : v \in GenValues }
Generators ==
    { [model |-> FALSE, raises |-> FALSE, text |-> << >>],
      [model |-> TRUE, raises |-> TRUE, text |-> << >>] }
    \cup { [model |-> TRUE, raises |-> FALSE, text |-> x] : x \in GenTexts }

GenInit ==
    /\ player = create_player
    /\ enemy = None
    /\ turn_count = 0
    /\ battle_log = << >>
    /\ pc = "select_biome"
    /\ result = << >>
    /\ called = "create_player"
    /\ last = Call(<< >>, << >>)

\* main, lines 109-114
GenerateEnemy ==
    /\ pc = "select_biome"
    /\ \E biome \in biomes, gen \in Generators :
         last' = Call([biome |-> biome, gen |-> gen], generate_enemy(biome, gen))
    /\ called' = "generate_enemy"
    /\ pc' = "construct"
    /\ UNCHANGED <<player, enemy, turn_count, battle_log, result>>

\* main, lines 117-125: enemy_data["name"] raises TypeError when enemy_data
\* is a list or a str, and main ends with it before an enemy exists
ConstructEnemy ==
    /\ pc = "construct"
    /\ IF is_dict(last.ret)
       THEN enemy' = EnemyOf(last.ret.value) /\ pc' = "battle"
       ELSE enemy' = enemy /\ pc' = "TypeError"
    /\ called' = "Character"
    /\ UNCHANGED <<player, turn_count, battle_log, result, last>>

GenNext == GenerateEnemy \/ ConstructEnemy

GenSpec == GenInit /\ [][GenNext]_vars

(***************************************************************************)
(* ScenarioSpec: Battle.run on the encounters of Spec when both sides      *)
(* always attack and every random bonus is 0.  Each battle is then one     *)
(* run, followed to its end.                                               *)
(***************************************************************************)
MaxScenarioTurns == 50
\* the player always chooses "attack"; random.randint(0, 5) gives 0
ScenarioPlayerInputs == { [action |-> "attack", spell_choice |-> "", bonus |-> 0] }
\* random.random() is below 0.7 (the enemy attacks); random.randint gives 0
ScenarioEnemyInputs == { [roll |-> 6, spell_key |-> "", bonus |-> 0] }

ScenarioTick == TickWithin(MaxScenarioTurns)
ScenarioPlayerFirst ==
    PlayerTurnOn(ScenarioPlayerInputs, "player_first", "enemy_second", "break")

ScenarioEnemySecond == EnemyTurnOn(ScenarioEnemyInputs, "enemy_second", "loop", "loop")
ScenarioEnemyFirst ==
    EnemyTurnOn(ScenarioEnemyInputs, "enemy_first", "player_second", "break")

ScenarioPlayerSecond == PlayerTurnOn(ScenarioPlayerInputs, "player_second", "loop", "loop")
ScenarioPlayerOnly == PlayerTurnOn(ScenarioPlayerInputs, "player_only", "loop", "loop")
ScenarioEnemyOnly == EnemyTurnOn(ScenarioEnemyInputs, "enemy_only", "loop", "loop")

ScenarioNext ==
    \/ ScenarioTick
    \/ ScenarioPlayerFirst
    \/ ScenarioEnemySecond
    \/ ScenarioEnemyFirst
    \/ ScenarioPlayerSecond
    \/ ScenarioPlayerOnly
    \/ ScenarioEnemyOnly
    \/ Return

ScenarioSpec == Init /\ [][ScenarioNext]_vars

(***************************************************************************)
(* LiveSpec: Battle.run on three short duels with every choice of the      *)
(* player and every draw of the enemy open, explored for the first         *)
(* MaxLiveTurns ticks, which is enough for battles with several heals,     *)
(* waits and no-ops to run to their end.  The loop of run neither blocks   *)
(* nor skips a step, which is the weak fairness of LiveNext.               *)
(***************************************************************************)
MaxLiveTurns == 12
\* the player is the faster one in the first duel, the enemy in the second;
\* in the third the speeds are equal
LiveEncounters ==
    { [player |-> Character("Duelist", 12, 8, 6, 0, 50),
       enemy |-> EnemyOf(Descriptor("Rat", 12, 10, 6, 0, 34, fire))],
      [player |-> Character("Duelist", 12, 8, 6, 0, 34),
       enemy |-> EnemyOf(Descriptor("Bat", 12, 10, 6, 0, 50, ice))],
      [player |-> Character("Duelist", 12, 8, 6, 0, 50),
       enemy |-> EnemyOf(Descriptor("Cat", 12, 10, 6, 0, 50, thunder))] }
\* the least and the greatest draw of random.randint(0, 5)
LiveBonuses == {0, MaxBonus}
LivePlayerInputs == { inp \in PlayerInputs : inp.bonus \in LiveBonuses }
LiveEnemyInputs(e) == { inp \in EnemyInputs(e) : inp.bonus \in LiveBonuses }

LiveInit ==
    /\ \E en \in LiveEncounters : player = en.player /\ enemy = en.enemy
    /\ turn_count = 0
    /\ battle_log = << >>
    /\ pc = "loop"
    /\ result = << >>
    /\ called = "Battle"
    /\ last = Call(<< >>, << >>)

LiveTick == TickWithin(MaxLiveTurns)

\* A boolean return value is recorded as a record: the values of `last` that
\* a temporal formula makes TLC compare are then records or << >>, never a
\* boolean against a message.
Returned(value) == [value |-> value]

\* faulty variant of LivePlayerTurn: a False return is not followed by
\* `continue`, the loop goes on as after a resolved turn
LivePlayerTurn_no_continue(at, alive_next, dead_next) ==
    /\ pc = at
    /\ \E inp \in LivePlayerInputs :
         LET o == execute_player_turn(player, enemy, battle_log,
                                      inp.action, inp.spell_choice, inp.bonus)
         IN /\ player' = o.player
            /\ enemy' = o.enemy
            /\ battle_log' = o.battle_log
            /\ called' = "execute_player_turn"
            /\ last' = Call(inp, Returned(o.success))
            /\ pc' = IF is_alive(o.enemy) THEN alive_next ELSE dead_next
    /\ UNCHANGED <<turn_count, result>>

\* execute_player_turn at `at`, as PlayerTurnOn
LivePlayerTurn(at, alive_next, dead_next) ==
    /\ pc = at
    /\ \E inp \in LivePlayerInputs :
         LET o == execute_player_turn(player, enemy, battle_log,
                                      inp.action, inp.spell_choice, inp.bonus)
         IN /\ player' = o.player
            /\ enemy' = o.enemy
            /\ battle_log' = o.battle_log
            /\ called' = "execute_player_turn"
            /\ last' = Call(inp, Returned(o.success))
            /\ pc' = IF ~o.success THEN "loop"
                     ELSE IF is_alive(o.enemy) THEN alive_next ELSE dead_next
    /\ UNCHANGED <<turn_count, result>>

LivePlayerFirst == LivePlayerTurn("player_first", "enemy_second", "break")
LiveEnemySecond == EnemyTurnOn(LiveEnemyInputs(enemy), "enemy_second", "loop", "loop")
LiveEnemyFirst == EnemyTurnOn(LiveEnemyInputs(enemy), "enemy_first", "player_second", "break")
LivePlayerSecond == LivePlayerTurn("player_second", "loop", "loop")
LivePlayerOnly == LivePlayerTurn("player_only", "loop", "loop")
LiveEnemyOnly == EnemyTurnOn(LiveEnemyInputs(enemy), "enemy_only", "loop", "loop")

\* as Return
LiveReturn ==
    /\ \/ pc = "loop" /\ ~(is_alive(player) /\ is_alive(enemy))
       \/ pc = "break"
    /\ pc' = "done"
    /\ result' = <<is_alive(player)>>
    /\ called' = "run" /\ last' = Call(<< >>, Returned(is_alive(player)))
    /\ UNCHANGED <<player, enemy, turn_count, battle_log>>

LiveNext ==
    \/ LiveTick
    \/ LivePlayerFirst
    \/ LiveEnemySecond
    \/ LiveEnemyFirst
    \/ LivePlayerSecond
    \/ LivePlayerOnly
    \/ LiveEnemyOnly
    \/ LiveReturn

LiveSpec == LiveInit /\ [][LiveNext]_vars /\ WF_vars(LiveNext)

(***************************************************************************)
(* EnemyTurnSpec: execute_enemy_turn called, any number of times, on a     *)
(* living pair of combatants while SPELLS holds the catalog of             *)
(* characters.py and one more, dearer spell.  With the four spells of      *)
(* characters.py alone an enemy that is let through to the cast (mp >= 10) *)
(* can afford every spell, so the fallback of lines 157-161 needs a spell  *)
(* that costs more than 10 to be taken.                                    *)
(***************************************************************************)
ExtendedCatalog ==
    [k \in DOMAIN SPELLS \cup {"Ultima"} |->
        IF k \in DOMAIN SPELLS THEN SPELLS[k] ELSE Spell("Ultima", 15, 40, None)]

\* the players the enemy acts against: without a weakness and weak to "ICE",
\* unhurt and hurt
EnemyTurnPlayers ==
    { take_damage(c, d).c :
        c \in { Character("Knight", 30, 0, 5, 0, 10),
                [Character("Mystic", 30, 0, 5, 0, 10) EXCEPT !.weakness = <<73, 67, 69>>] },
        d \in {0, 12} }

\* the enemies: a Golem at full gauge that has lost hp and spent mp before
EnemyTurnEnemies ==
    { update_atb(use_mp(take_damage(Character("Golem", 40, 20, 10, 2, 100), d).c, m).c, 1).c :
        d \in {0, 10, 35}, m \in {0, 5, 8, 10, 11, 12, 20} }

EnemyTurnInit ==
    /\ player \in EnemyTurnPlayers
    /\ enemy \in EnemyTurnEnemies
    /\ turn_count = 0
    /\ battle_log = << >>
    /\ pc = "enemy_turn"
    /\ result = << >>
    /\ called = "Battle"
    /\ last = Call(<< >>, << >>)

\* execute_enemy_turn called while SPELLS holds `catalog`
EnemyTurnCallWith(catalog) ==
    /\ pc = "enemy_turn"
    /\ is_alive(player) /\ is_alive(enemy)
    /\ \E inp \in EnemyInputsFrom(catalog, enemy) :
         LET o == execute_enemy_turn_from(catalog, player, enemy, battle_log,
                                          inp.roll, inp.spell_key, inp.bonus)
         IN /\ player' = o.player
            /\ enemy' = o.enemy
            /\ battle_log' = o.battle_log
            /\ called' = "execute_enemy_turn" /\ last' = Call(inp, o.message)
    /\ UNCHANGED <<turn_count, pc, result>>

EnemyTurnCall == EnemyTurnCallWith(ExtendedCatalog)

EnemyTurnNext == EnemyTurnCall

EnemyTurnSpec == EnemyTurnInit /\ [][EnemyTurnNext]_vars

(***************************************************************************)
(* BuiltinTurnSpec: the same calls of execute_enemy_turn while SPELLS      *)
(* holds the four spells of characters.py and nothing else, as in the game.*)
(***************************************************************************)
BuiltinTurnCall == EnemyTurnCallWith(SPELLS)

BuiltinTurnNext == BuiltinTurnCall

BuiltinTurnSpec == EnemyTurnInit /\ [][BuiltinTurnNext]_vars

(***************************************************************************)
(* CadenceSpec: Battle.run in which both sides consume every turn they get *)
(* (the player always attacks, the enemy's roll is below 0.7, every bonus  *)
(* is 0), on pairs of speeds with the same and with different numbers of   *)
(* ticks per turn.  hp is large against strength, so the long duels last   *)
(* beyond the ticks explored; two short duels end by a death.              *)
(***************************************************************************)
MaxCadenceTurns == 30
CadenceEncounters ==
    { \* 10 ticks per turn on both sides, the enemy the faster one
      [player |-> Character("Tortoise", 60, 0, 1, 0, 10),
       enemy |-> EnemyOf(Descriptor("Hare", 60, 0, 1, 0, 11, None))],
      \* the same speeds the other way round
      [player |-> Character("Hare", 60, 0, 1, 0, 11),
       enemy |-> EnemyOf(Descriptor("Tortoise", 60, 0, 1, 0, 10, None))],
      \* 2 against 3 ticks per turn, 13 against 9
      [player |-> Character("Swift", 60, 0, 1, 0, 50),
       enemy |-> EnemyOf(Descriptor("Slow", 60, 0, 1, 0, 34, None))],
      [player |-> Character("Slow", 60, 0, 1, 0, 8),
       enemy |-> EnemyOf(Descriptor("Swift", 60, 0, 1, 0, 12, None))],
      \* the faster player kills on its 3rd turn, when both are ready
      [player |-> Character("Slayer", 60, 0, 20, 0, 50),
       enemy |-> EnemyOf(Descriptor("Prey", 60, 0, 1, 0, 34, None))],
      \* the slower player kills on its 2nd turn, after the enemy's 3rd
      [player |-> Character("Slayer", 60, 0, 30, 0, 34),
       enemy |-> EnemyOf(Descriptor("Prey", 60, 0, 1, 0, 50, None))] }

CadenceInit ==
    /\ \E en \in CadenceEncounters : player = en.player /\ enemy = en.enemy
    /\ turn_count = 0
    /\ battle_log = << >>
    /\ pc = "loop"
    /\ result = << >>
    /\ called = "Battle"
    /\ last = Call(<< >>, << >>)

CadenceTick == TickWithin(MaxCadenceTurns)
CadencePlayerFirst ==
    PlayerTurnOn(ScenarioPlayerInputs, "player_first", "enemy_second", "break")

CadenceEnemySecond == EnemyTurnOn(ScenarioEnemyInputs, "enemy_second", "loop", "loop")
CadenceEnemyFirst ==
    EnemyTurnOn(ScenarioEnemyInputs, "enemy_first", "player_second", "break")

CadencePlayerSecond == PlayerTurnOn(ScenarioPlayerInputs, "player_second", "loop", "loop")
CadencePlayerOnly == PlayerTurnOn(ScenarioPlayerInputs, "player_only", "loop", "loop")
CadenceEnemyOnly == EnemyTurnOn(ScenarioEnemyInputs, "enemy_only", "loop", "loop")

CadenceNext ==
    \/ CadenceTick
    \/ CadencePlayerFirst
    \/ CadenceEnemySecond
    \/ CadenceEnemyFirst
    \/ CadencePlayerSecond
    \/ CadencePlayerOnly
    \/ CadenceEnemyOnly
    \/ Return

CadenceSpec == CadenceInit /\ [][CadenceNext]_vars

(***************************************************************************)
(* UnitSpec: a Character() fresh from its constructor on which the methods *)
(* of characters.py are called in any order.  The character is held in     *)
(* `player`.                                                               *)
(***************************************************************************)
UnitSpeeds == {0, 12, 34, 100}
UnitIncrements == {0, 1, 2}
UnitInit ==
    /\ \E hp \in 0..MaxStat, mp \in 0..MaxStat, speed \in UnitSpeeds :
         player = Character("Unit", hp, mp, 0, 0, speed)
    /\ enemy = create_player
    /\ turn_count = 0
    /\ battle_log = << >>
    /\ pc = "unit"
    /\ result = << >>
    /\ called = "Character"
    /\ last = Call(<< >>, << >>)

UnitFrame == UNCHANGED <<enemy, turn_count, battle_log, pc, result>>

UnitTakeDamage ==
    /\ \E damage \in 0..MaxStat + 1 :
         LET r == take_damage(player, damage)
         IN player' = r.c /\ called' = "take_damage" /\ last' = Call(damage, r.ret)
    /\ UnitFrame

UnitHeal ==
    /\ \E amount \in 0..MaxStat + 1 :
         LET r == heal(player, amount)
         IN player' = r.c /\ called' = "heal" /\ last' = Call(amount, r.ret)
    /\ UnitFrame

UnitUseMp ==
    /\ \E cost \in 0..MaxStat + 1 :
         LET r == use_mp(player, cost)
         IN player' = r.c /\ called' = "use_mp" /\ last' = Call(cost, r.ret)
    /\ UnitFrame

UnitRestoreMp ==
    /\ \E amount \in 0..MaxStat + 1 :
         LET r == restore_mp(player, amount)
         IN player' = r.c /\ called' = "restore_mp" /\ last' = Call(amount, r.ret)
    /\ UnitFrame

UnitUpdateAtb ==
    /\ \E increment \in UnitIncrements :
         LET r == update_atb(player, increment)
         IN player' = r.c /\ called' = "update_atb" /\ last' = Call(increment, r.ret)
    /\ UnitFrame

UnitResetAtb ==
    /\ player' = reset_atb(player)
    /\ called' = "reset_atb" /\ last' = Call(<< >>, << >>)
    /\ UnitFrame

UnitNext ==
    \/ UnitTakeDamage
    \/ UnitHeal
    \/ UnitUseMp
    \/ UnitRestoreMp
    \/ UnitUpdateAtb
    \/ UnitResetAtb

UnitSpec == UnitInit /\ [][UnitNext]_vars

(***************************************************************************)
(* SpellSpec: Spell.calculate_damage called on any spell, caster magic and *)
(* target weakness of the sets below, any number of times.                 *)
(***************************************************************************)
SpellMagics == {0, 1, 18}
\* the catalog, a spell without element, one with an empty element and one
\* whose element is written in capitals
SpellSpells ==
    { SPELLS[k] : k \in DOMAIN SPELLS }
    \cup { Spell("Strike", 0, 5, None), Spell("Void", 1, 0, << >>),
           Spell("Blaze", 12, 40, <<70, 73, 82, 69>>),
           \* elements outside ASCII: "\u00e9clair", "ink", "\u0130ce", "\u00ff",
           \* "\u03c9", "\u0436ar", "stra\u00dfe"
           \* "\u03b1\u03c3", "\u03c3" (small sigma)
           Spell("Alpha", 10, 20, <<945, 963>>),
           Spell("Sigma", 10, 20, <<963>>),
           Spell("Omega", 10, 20, <<969>>),
           Spell("Zhar", 10, 20, <<1078, 97, 114>>),
           Spell("Strasse", 10, 20, <<115, 116, 114, 97, 223, 101>>),
           Spell("Eclair", 10, 20, <<233, 99, 108, 97, 105, 114>>),
           Spell("Ink", 10, 20, <<105, 110, 107>>),
           Spell("Frost", 10, 20, <<304, 99, 101>>),
           Spell("Yell", 10, 20, <<255>>) }

\* None, "", "fire", "Fire", "FIRE", "ice", "healing", "fir"
\* and "\u00c9CLAIR", "IN\u212a" (Kelvin sign), "\u0130ce", "i\u0307ce", "ICE",
\* "\u0178", "\u03a9", "\u2126" (Ohm sign), "\u0416AR", "STRA\u1e9eE", "STRASSE"
SpellWeaknesses ==
    { None, << >>, fire, <<70, 105, 114, 101>>, <<70, 73, 82, 69>>, ice, healing,
      <<102, 105, 114>>,
      <<201, 67, 76, 65, 73, 82>>, <<73, 78, 8490>>, <<304, 99, 101>>,
      <<105, 775, 99, 101>>, <<73, 67, 69>>, <<376>>,
      <<937>>, <<8486>>, <<1046, 65, 82>>, <<83, 84, 82, 65, 7838, 69>>,
      <<83, 84, 82, 65, 83, 83, 69>>,
      \* "\u0391\u03a3", "\u03b1\u03c2" (final sigma), "\u03a3", "\u0391\u03a3."
      <<913, 931>>, <<945, 962>>, <<931>>, <<913, 931, 46>> }

SpellInit ==
    /\ player = create_player
    /\ enemy = EnemyOf(MagitekArmor)
    /\ turn_count = 0
    /\ battle_log = << >>
    /\ pc = "spell"
    /\ result = << >>
    /\ called = "Spell"
    /\ last = Call(<< >>, << >>)

CalculateDamage ==
    /\ \E spell \in SpellSpells, caster_magic \in SpellMagics,
          target_weakness \in SpellWeaknesses :
         /\ called' = "calculate_damage"
         /\ last' = Call([spell |-> spell, caster_magic |-> caster_magic,
                          target_weakness |-> target_weakness],
                         calculate_damage(spell, caster_magic, target_weakness))
    /\ UNCHANGED <<player, enemy, turn_count, battle_log, pc, result>>

SpellNext == CalculateDamage

SpellSpec == SpellInit /\ [][SpellNext]_vars

(***************************************************************************)
(* Properties of the battle (Spec).                                        *)
(***************************************************************************)
Combatants == {player, enemy}
PlayerTurnTaken == called = "execute_player_turn"
EnemyTurnTaken == called = "execute_enemy_turn"
\* in a step: the step is a call of ...
IsTick == called' = "update_atb_gauges"
IsPlayerTurn == called' = "execute_player_turn"
IsEnemyTurn == called' = "execute_enemy_turn"
LastMessage == battle_log[Len(battle_log)]

\* C1: in every reachable state of a battle both combatants have
\* 0 <= hp <= max_hp, 0 <= mp <= max_mp and 0 <= atb_gauge <= 100.
C1_StatsInRange ==
    \A c \in Combatants :
        /\ 0 <= c.hp /\ c.hp <= c.max_hp
        /\ 0 <= c.mp /\ c.mp <= c.max_mp
        /\ 0 <= c.atb_gauge /\ c.atb_gauge <= 100

\* an attack whose damage exceeded the enemy's hp has been applied, after mp
\* was spent and a gauge advanced
C1_Witness ==
    /\ PlayerTurnTaken /\ last.args.action = "attack"
    /\ enemy.hp = 0
    /\ LastMessage.amount < player.strength + last.args.bonus
    /\ player.mp < player.max_mp
    /\ enemy.atb_gauge > 0

\* C2: once a turn has left a combatant with hp 0 no further turn is resolved
\* and no further tick is made, the loop is left and run returns; the two
\* combatants are never both at hp 0; run returns True exactly when the
\* enemy's hp is 0 and False exactly when the player's hp is 0.
C2_StopsAtDeath ==
    /\ [](~(player.hp = 0 /\ enemy.hp = 0))
    /\ [](pc = "done" =>
            /\ (result = <<TRUE>>) <=> (enemy.hp = 0)
            /\ (result = <<FALSE>>) <=> (player.hp = 0)
            /\ result \in {<<TRUE>>, <<FALSE>>})
    /\ []((pc \notin {"done", "break"} /\ pc # "loop") =>
            (is_alive(player) /\ is_alive(enemy)))
    /\ [][(~is_alive(player) \/ ~is_alive(enemy)) =>
            /\ UNCHANGED <<player, enemy, battle_log, turn_count>>
            /\ pc' = "done"]_vars

\* run has returned False after the enemy's action took the player's last hp
C2_Witness ==
    /\ pc = "done" /\ result = <<FALSE>>
    /\ player.hp = 0 /\ enemy.hp > 0
    /\ Len(battle_log) > 0 /\ LastMessage.actor = enemy.name

\* C3: in a tick that left both gauges at 100 the player's turn comes first
\* iff player.speed >= enemy.speed; once the first turn is executed the other
\* combatant's turn follows in the same tick if that combatant is alive, and
\* otherwise the loop is left; a combatant's gauge is 0 after its executed turn.
C3_BothReadyOrder ==
    /\ []((called = "update_atb_gauges" /\ player.atb_gauge = 100
           /\ enemy.atb_gauge = 100) =>
            pc = IF player.speed >= enemy.speed THEN "player_first" ELSE "enemy_first")
    /\ [](pc \in {"player_first", "enemy_first"} =>
            (called = "update_atb_gauges" /\ player.atb_gauge = 100
             /\ enemy.atb_gauge = 100))
    /\ [][pc = "player_first" =>
            /\ IsPlayerTurn /\ turn_count' = turn_count
            /\ last'.ret =>
                 /\ player'.atb_gauge = 0
                 /\ pc' = IF is_alive(enemy') THEN "enemy_second" ELSE "break"]_vars
    /\ [][pc = "enemy_second" =>
            /\ IsEnemyTurn /\ turn_count' = turn_count
            /\ enemy'.atb_gauge = 0 /\ player'.atb_gauge = 0]_vars
    /\ [][pc = "enemy_first" =>
            /\ IsEnemyTurn /\ turn_count' = turn_count
            /\ enemy'.atb_gauge = 0
            /\ pc' = IF is_alive(player') THEN "player_second" ELSE "break"]_vars
    /\ [][pc = "player_second" =>
            /\ IsPlayerTurn /\ turn_count' = turn_count
            /\ enemy'.atb_gauge = 0
            /\ last'.ret => player'.atb_gauge = 0]_vars

\* equal speeds: the player acted, then the enemy acted in the same tick
C3_Witness ==
    /\ EnemyTurnTaken /\ pc = "loop"
    /\ player.speed = enemy.speed
    /\ player.atb_gauge = 0 /\ enemy.atb_gauge = 0
    /\ Len(battle_log) >= 2
    /\ battle_log[Len(battle_log) - 1].actor = player.name
    /\ LastMessage.actor = enemy.name

\* C4: a tick changes no hp, mp or log; after a tick that left neither gauge
\* at 100 the loop just ticks again; after a tick that left exactly one gauge
\* at 100 only that side's turn is executed, only that side's gauge is reset
\* and the other side's gauge keeps its value; a turn is only ever executed
\* for a combatant whose gauge is at 100.
C4_OnlyReadyActs ==
    /\ [][IsTick =>
            /\ player'.hp = player.hp /\ player'.mp = player.mp
            /\ enemy'.hp = enemy.hp /\ enemy'.mp = enemy.mp
            /\ battle_log' = battle_log
            /\ (player'.atb_gauge < 100 /\ enemy'.atb_gauge < 100) => pc' = "loop"
            /\ (player'.atb_gauge = 100 /\ enemy'.atb_gauge < 100) => pc' = "player_only"
            /\ (player'.atb_gauge < 100 /\ enemy'.atb_gauge = 100) => pc' = "enemy_only"]_vars
    /\ [][pc = "player_only" =>
            /\ IsPlayerTurn /\ pc' = "loop"
            /\ enemy'.atb_gauge = enemy.atb_gauge
            /\ last'.ret => player'.atb_gauge = 0]_vars
    /\ [][pc = "enemy_only" =>
            /\ IsEnemyTurn /\ pc' = "loop"
            /\ enemy'.atb_gauge = 0
            /\ player'.atb_gauge = player.atb_gauge]_vars
    /\ [][IsPlayerTurn => player.atb_gauge = 100]_vars
    /\ [][IsEnemyTurn => enemy.atb_gauge = 100]_vars

\* only the enemy was ready: it acted, its gauge is 0 and the player's gauge
\* is still on its way
C4_Witness ==
    /\ EnemyTurnTaken /\ pc = "loop"
    /\ enemy.atb_gauge = 0
    /\ player.atb_gauge > 0 /\ player.atb_gauge < 100

\* C5: a player turn that is cancelled, invalid, names an unknown spell or
\* names a spell costing more than the player's mp returns False and changes
\* nothing: both combatants (the player's gauge still 100) and the log are as
\* before.
C5_NoOpChangesNothing ==
    [][(/\ IsPlayerTurn
        /\ \/ last'.args.action \notin {"attack", "magic", "wait"}
           \/ /\ last'.args.action = "magic"
              /\ \/ last'.args.spell_choice = ""
                 \/ last'.args.spell_choice \notin DOMAIN SPELLS
                 \/ SPELLS[last'.args.spell_choice].mp_cost > player.mp)
       =>
       /\ last'.ret = FALSE
       /\ player' = player /\ player.atb_gauge = 100
       /\ enemy' = enemy
       /\ battle_log' = battle_log]_vars

\* a catalog spell was chosen that the player could not pay
C5_Witness ==
    /\ PlayerTurnTaken /\ last.ret = FALSE
    /\ last.args.action = "magic"
    /\ last.args.spell_choice \in DOMAIN SPELLS
    /\ player.mp < SPELLS[last.args.spell_choice].mp_cost
    /\ player.atb_gauge = 100

\* C6: after a player turn that returned False the player is prompted again
\* before anything else happens: until the next call of execute_player_turn
\* there is no further iteration of the loop (turn_count and the gauges stay)
\* and no enemy turn (the enemy's state and the player's hp stay).
C6_NoOpDoesNotAdvance ==
    [][(PlayerTurnTaken /\ last.ret = FALSE) =>
         \/ IsPlayerTurn
         \/ /\ enemy' = enemy
            /\ player'.hp = player.hp
            /\ turn_count' = turn_count]_vars

\* C9: a successful cast of the healing spell raises the caster's hp by
\* min(power, max_hp - hp), lowers the caster's mp by mp_cost, reports that
\* amount and leaves the opponent's hp and mp unchanged, by either side and
\* whatever the opponent's weakness.
HealingKeys == {k \in DOMAIN SPELLS : SPELLS[k].element = healing}
HealedBy(before, after, spell, opponent_before, opponent_after) ==
    /\ after.hp = before.hp + Min(spell.power, before.max_hp - before.hp)
    /\ after.mp = before.mp - spell.mp_cost
    /\ opponent_after.hp = opponent_before.hp
    /\ opponent_after.mp = opponent_before.mp
    /\ battle_log' = Append(battle_log,
           Message(before.name, "heal", spell.name,
                   Min(spell.power, before.max_hp - before.hp), FALSE))

C9_HealingCast ==
    /\ [][(/\ IsPlayerTurn
           /\ last'.args.action = "magic"
           /\ last'.args.spell_choice \in HealingKeys
           /\ player.mp >= SPELLS[last'.args.spell_choice].mp_cost)
          =>
          /\ last'.ret = TRUE
          /\ HealedBy(player, player', SPELLS[last'.args.spell_choice], enemy, enemy')]_vars
    /\ [][(/\ IsEnemyTurn
           /\ last'.args.spell_key \in HealingKeys
           /\ enemy.mp >= SPELLS[last'.args.spell_key].mp_cost)
          =>
          HealedBy(enemy, enemy', SPELLS[last'.args.spell_key], player, player')]_vars

\* the player, hurt by less than the spell's power, cast Cure on itself while
\* the enemy's weakness is the spell's element: the heal was capped at max_hp
C9_Witness ==
    /\ PlayerTurnTaken /\ last.ret = TRUE
    /\ last.args.action = "magic" /\ last.args.spell_choice \in HealingKeys
    /\ LastMessage.kind = "heal"
    /\ LastMessage.amount > 0
    /\ LastMessage.amount < SPELLS[last.args.spell_choice].power
    /\ player.hp = player.max_hp
    /\ enemy.weakness = healing

\* C10: a player attack returns True; with bonus b the enemy's hp drops by
\* min(strength + b, enemy hp), the player's gauge becomes 0, one entry is
\* appended to the log, and the player's hp and mp and the enemy's mp and
\* gauge are unchanged.
C10_PlayerAttack ==
    [][(IsPlayerTurn /\ last'.args.action = "attack") =>
         LET dealt == Min(player.strength + last'.args.bonus, enemy.hp)
         IN /\ last'.args.bonus \in 0..MaxBonus
            /\ last'.ret = TRUE
            /\ enemy'.hp = enemy.hp - dealt
            /\ player'.atb_gauge = 0
            /\ Len(battle_log') = Len(battle_log) + 1
            /\ SubSeq(battle_log', 1, Len(battle_log)) = battle_log
            /\ battle_log'[Len(battle_log')].amount = dealt
            /\ player'.hp = player.hp /\ player'.mp = player.mp
            /\ enemy'.mp = enemy.mp /\ enemy'.atb_gauge = enemy.atb_gauge]_vars

\* an attack with the largest bonus that did not finish the enemy
C10_Witness ==
    /\ PlayerTurnTaken /\ last.args.action = "attack"
    /\ last.args.bonus = MaxBonus
    /\ LastMessage.amount = player.strength + MaxBonus
    /\ enemy.hp > 0 /\ enemy.hp = enemy.max_hp - LastMessage.amount
    /\ player.atb_gauge = 0

(***************************************************************************)
(* Properties of the Character methods (UnitSpec).                         *)
(***************************************************************************)
\* C7: use_mp(cost) returns True iff mp >= cost at the call; on True mp drops
\* by exactly cost, on False mp is unchanged; no other field changes.
C7_UseMp ==
    [][called' = "use_mp" =>
         LET cost == last'.args
         IN /\ last'.ret = (player.mp >= cost)
            /\ last'.ret => player' = [player EXCEPT !.mp = player.mp - cost]
            /\ ~last'.ret => player' = player]_vars

\* a paid call that took the last mp, on a character that had lost mp before
C7_Witness ==
    /\ called = "use_mp" /\ last.ret = TRUE
    /\ last.args > 0
    /\ player.mp = 0 /\ player.max_mp > last.args

(***************************************************************************)
(* Properties of Spell.calculate_damage (SpellSpec).                       *)
(***************************************************************************)
\* the pairs <<capital, small letter>>; the capital sigma has two small
\* letters, the second (U+03C2) written at the end of a word
CasePairs ==
    UNION { { <<c, c + r[4]>> : c \in { x \in r[1]..r[2] : (x - r[1]) % r[3] = 0 } } :
            r \in ToLowerRanges }
    \cup { <<931, 962>> }

\* a and b are one letter in either case: the same character, a capital and
\* its small letter, or two capitals of one small letter
IsLetterPair(a, b, pairs) ==
    \/ a = b
    \/ \E p \in pairs :
          \/ p = <<a, b>>
          \/ p = <<b, a>>
          \/ p[1] = a /\ \E q \in pairs : q = <<b, p[2]>>

\* U+0130, the capital I with a dot above, written as I and the combining dot
RECURSIVE Decomposed(_)
Decomposed(s) ==
    IF Len(s) = 0 THEN << >>
    ELSE (IF Head(s) = 304 THEN <<73, 775>> ELSE <<Head(s)>>) \o Decomposed(Tail(s))

EqualLettersIn(ds, dt, pairs) ==
    /\ Len(ds) = Len(dt)
    /\ \A i \in 1..Len(ds) : IsLetterPair(ds[i], dt[i], pairs)

EqualIgnoringCase(s, t) == EqualLettersIn(Decomposed(s), Decomposed(t), CasePairs)

\* the optional string is present (not None, not empty)
Present(s) == s # None /\ Len(s) > 0

\* C8: calculate_damage returns power + 2*caster_magic, times 2 iff the spell
\* has an element that equals the target's weakness ignoring case; power 20
\* and magic 18 give 56 unmatched and 112 matched; the call changes no state.
\* (Violated by the code for a weakness with a capital sigma at the end of a
\* word, which str.lower() turns into the final small sigma.)
C8_CalculateDamage ==
    /\ [](called = "calculate_damage" =>
            LET a == last.args
                base == a.spell.power + 2 * a.caster_magic
                matched == /\ Present(a.spell.element)
                           /\ Present(a.target_weakness)
                           /\ EqualIgnoringCase(a.spell.element, a.target_weakness)
            IN /\ last.ret = IF matched THEN 2 * base ELSE base
               /\ (a.spell.power = 20 /\ a.caster_magic = 18) =>
                     last.ret = IF matched THEN 112 ELSE 56)
    /\ [][called' = "calculate_damage" =>
            UNCHANGED <<player, enemy, turn_count, battle_log, pc, result>>]_vars

\* the catalog keys of the damaging (non-healing) abilities
DamagingKeys == DOMAIN SPELLS \ HealingKeys
\* the spell's element and the weakness are both present and equal up to case
Matched(spell, weakness) ==
    /\ Present(spell.element)
    /\ Present(weakness)
    /\ EqualIgnoringCase(spell.element, weakness)

\* what the claims expect a damaging spell to deal before the cap at the
\* target's hp
SpellDamage(spell, caster, target) ==
    (spell.power + 2 * caster.magic) * (IF Matched(spell, target.weakness) THEN 2 ELSE 1)

\* C11: when the player picks a damaging catalog ability and has mp >= its
\* cost, the turn is consumed: the player's mp falls by exactly the cost, the
\* enemy's hp falls by exactly min(calculate_damage(player.magic,
\* enemy.weakness), enemy hp), the player's gauge is 0 afterwards, and the
\* outcome is flagged as a weakness hit iff the ability's element equals the
\* enemy's weakness ignoring case.
C11_DamagingCast ==
    [][(/\ IsPlayerTurn
        /\ last'.args.action = "magic"
        /\ last'.args.spell_choice \in DamagingKeys
        /\ player.mp >= SPELLS[last'.args.spell_choice].mp_cost)
       =>
       LET spell == SPELLS[last'.args.spell_choice]
           dealt == Min(SpellDamage(spell, player, enemy), enemy.hp)
       IN /\ last'.ret = TRUE
          /\ player' = [player EXCEPT !.mp = player.mp - spell.mp_cost,
                                      !.atb_gauge = 0]
          /\ enemy' = [enemy EXCEPT !.hp = enemy.hp - dealt]
          /\ battle_log' = Append(battle_log,
                 Message(player.name, "cast", spell.name, dealt,
                         Matched(spell, enemy.weakness)))]_vars

\* the player cast Fire on an enemy whose weakness is "FIRE": the hit is
\* flagged although the two strings differ, and the doubled damage was capped
\* at the enemy's hp
C11_Witness ==
    /\ PlayerTurnTaken /\ last.ret = TRUE
    /\ last.args.action = "magic" /\ last.args.spell_choice \in DamagingKeys
    /\ LastMessage.kind = "cast" /\ LastMessage.weakness_bonus
    /\ enemy.weakness # SPELLS[last.args.spell_choice].element
    /\ player.atb_gauge = 0 /\ player.mp < player.max_mp
    /\ enemy.hp = 0

\* C12: a player turn that chooses to wait consumes the turn (gauge 0,
\* execute_player_turn returns True) and has no other effect: hp and mp of
\* both combatants and the enemy's gauge are unchanged, and so is everything
\* else of the battle.
C12_Wait ==
    [][(IsPlayerTurn /\ last'.args.action = "wait")
       =>
       /\ last'.ret = TRUE
       /\ player' = [player EXCEPT !.atb_gauge = 0]
       /\ enemy' = enemy
       /\ UNCHANGED <<battle_log, turn_count, result>>]_vars

\* the player, hurt and with mp spent, has waited while the enemy's gauge is
\* part-filled
C12_Witness ==
    /\ PlayerTurnTaken /\ last.args.action = "wait" /\ last.ret = TRUE
    /\ player.atb_gauge = 0
    /\ player.hp < player.max_hp /\ player.mp < player.max_mp
    /\ enemy.atb_gauge > 0 /\ enemy.atb_gauge < 100

\* the enemy's physical attack with some bonus in 0..5, capped at the
\* player's hp; the enemy pays nothing
EnemyAttacked ==
    \E bonus \in 0..MaxBonus :
        LET dealt == Min(enemy.strength + bonus, player.hp)
        IN /\ player' = [player EXCEPT !.hp = player.hp - dealt]
           /\ enemy' = [enemy EXCEPT !.atb_gauge = 0]
           /\ battle_log' = Append(battle_log,
                  Message(enemy.name, "attack", "", dealt, FALSE))

\* the enemy's paid cast of the spell: a heal of itself or damage to the player
EnemyCast(spell) ==
    /\ enemy.mp >= spell.mp_cost
    /\ IF spell.element = healing
       THEN LET healed == Min(spell.power, enemy.max_hp - enemy.hp)
            IN /\ player' = player
               /\ enemy' = [enemy EXCEPT !.hp = enemy.hp + healed,
                                         !.mp = enemy.mp - spell.mp_cost,
                                         !.atb_gauge = 0]
               /\ battle_log' = Append(battle_log,
                      Message(enemy.name, "heal", spell.name, healed, FALSE))
       ELSE LET dealt == Min(SpellDamage(spell, enemy, player), player.hp)
            IN /\ player' = [player EXCEPT !.hp = player.hp - dealt]
               /\ enemy' = [enemy EXCEPT !.mp = enemy.mp - spell.mp_cost,
                                         !.atb_gauge = 0]
               /\ battle_log' = Append(battle_log,
                      Message(enemy.name, "cast", spell.name, dealt, FALSE))

\* C13: every enemy turn consumes the turn and resolves to exactly one
\* effect: a physical attack dealing strength + bonus (bonus in 0..5, capped
\* at the player's hp), or a paid cast of one catalog ability.  The attack is
\* forced whenever the enemy's mp is below 10; when the randomly chosen
\* ability cannot be afforded the enemy attacks and its mp is unchanged; the
\* enemy's gauge is 0 afterwards in all cases.
C13_EnemyTurn ==
    [][IsEnemyTurn =>
         LET key == last'.args.spell_key
             cast == \E k \in DOMAIN ExtendedCatalog : EnemyCast(ExtendedCatalog[k])
         IN /\ EnemyAttacked \/ cast
            /\ ~(EnemyAttacked /\ cast)
            /\ enemy.mp < 10 => EnemyAttacked
            /\ (key # "" /\ enemy.mp < ExtendedCatalog[key].mp_cost) =>
                   EnemyAttacked /\ enemy'.mp = enemy.mp
            /\ (key # "" /\ enemy.mp >= ExtendedCatalog[key].mp_cost) =>
                   EnemyCast(ExtendedCatalog[key])
            /\ enemy'.atb_gauge = 0
            /\ last'.ret = battle_log'[Len(battle_log')]
            /\ UNCHANGED <<turn_count, result>>]_vars

\* the enemy, with mp of 10 or more, drew the spell that costs 15 and could
\* not pay: it attacked instead and kept its mp
C13_Witness ==
    /\ EnemyTurnTaken
    /\ last.args.spell_key = "Ultima"
    /\ LastMessage.kind = "attack" /\ LastMessage.amount > 0
    /\ enemy.mp >= 10 /\ enemy.mp < ExtendedCatalog["Ultima"].mp_cost
    /\ enemy.atb_gauge = 0

\* the entries of the log written for `actor`
EntriesOf(actor) == { i \in 1..Len(battle_log) : battle_log[i].actor = actor }

\* C14: A (hp 100, mp 50, strength 16, magic 18, speed 12) against B (hp 80,
\* mp 20, strength 15, magic 12, speed 8), both always attacking with bonus 0:
\* every attack of A deals 16 and every attack of B deals 15; the battle ends
\* with A the winner on A's 5th attack, when B has resolved fewer than 5
\* attacks and A's hp is above 25.
C14_Scenario ==
    (/\ player.name = "Terra" /\ enemy.name = "Magitek Armor"
     /\ player.max_hp = 100 /\ player.max_mp = 50 /\ player.strength = 16
     /\ player.magic = 18 /\ player.speed = 12
     /\ enemy.max_hp = 80 /\ enemy.max_mp = 20 /\ enemy.strength = 15
     /\ enemy.magic = 12 /\ enemy.speed = 8)
    =>
    LET attacksA == Cardinality(EntriesOf(player.name))
        attacksB == Cardinality(EntriesOf(enemy.name))
    IN /\ \A i \in EntriesOf(player.name) :
            battle_log[i].kind = "attack" /\ battle_log[i].amount = 16
       /\ \A i \in EntriesOf(enemy.name) :
            battle_log[i].kind = "attack" /\ battle_log[i].amount = 15
       /\ enemy.hp = 80 - 16 * attacksA
       /\ player.hp = 100 - 15 * attacksB
       /\ attacksA <= 5
       /\ attacksA = 5 =>
            /\ pc \in {"break", "loop", "done"}
            /\ ~is_alive(enemy)
            /\ battle_log[Len(battle_log)].actor = player.name
            /\ attacksB < 5
            /\ player.hp > 25
       /\ pc = "done" => attacksA = 5 /\ result = <<TRUE>>
       /\ turn_count < MaxScenarioTurns

\* the run of A against B has ended: A has won
C14_Witness ==
    /\ player.name = "Terra" /\ enemy.name = "Magitek Armor"
    /\ pc = "done" /\ result = <<TRUE>>
    /\ Cardinality(EntriesOf(player.name)) = 5
    /\ enemy.hp = 0 /\ player.hp > 25

\* C17: for speed >= 0 and increment >= 0, update_atb never decreases the
\* gauge, sets it to min(100, gauge + increment*speed) and returns True iff
\* the resulting gauge is exactly 100; a gauge at 100 stays at 100 under
\* further update_atb calls (and any call but reset_atb).
C17_UpdateAtb ==
    /\ [][called' = "update_atb" =>
            LET increment == last'.args
            IN /\ player.speed >= 0 /\ increment >= 0
               /\ player'.atb_gauge >= player.atb_gauge
               /\ player' = [player EXCEPT !.atb_gauge =
                                Min(100, player.atb_gauge + increment * player.speed)]
               /\ last'.ret = (player'.atb_gauge = 100)]_vars
    /\ [][(player.atb_gauge = 100 /\ called' # "reset_atb") =>
            player'.atb_gauge = 100]_vars
    /\ [][called' = "reset_atb" => player'.atb_gauge = 0]_vars

\* a gauge of 68 or 100 was advanced by 34: 102 or 134 is clamped to 100
C17_Witness ==
    /\ called = "update_atb" /\ last.args = 1 /\ last.ret = TRUE
    /\ player.speed = 34
    /\ player.atb_gauge = 100

\* C18: for every amount >= 0, take_damage(amount) lowers hp by exactly
\* min(amount, hp) and returns exactly that: the value returned (the damage a
\* turn reports) is the hp the target lost, and max(0, hp - amount) equals
\* hp - min(amount, hp).
C18_TakeDamage ==
    [][called' = "take_damage" =>
         LET amount == last'.args
         IN /\ amount >= 0
            /\ player' = [player EXCEPT !.hp = player.hp - Min(amount, player.hp)]
            /\ last'.ret = Min(amount, player.hp)
            /\ last'.ret = player.hp - player'.hp
            /\ player'.hp = Max(0, player.hp - amount)]_vars

\* more damage than the character had hp: it is at 0 and the smaller amount
\* was returned
C18_Witness ==
    /\ called = "take_damage"
    /\ last.ret > 0 /\ last.args > last.ret
    /\ player.hp = 0

(***************************************************************************)
(* Properties of generate_enemy (GenSpec).                                 *)
(***************************************************************************)
\* no descriptor was obtained and validated: there is no model, the request
\* or the parse raised, or what was parsed is no dict with all required fields
ObtainFailed(gen) ==
    \/ ~gen.model
    \/ gen.raises
    \/ LET loaded == json_loads(strip_code_block(gen.text))
       IN \/ loaded.raised
          \/ loaded.value.t # "object"
          \/ ~(required_fields \subseteq DOMAIN loaded.value.value)

\* C19: on every failure to obtain or validate a descriptor, generate_enemy
\* returns a fallback that is a function of the scenario tag alone: the named
\* fallback for a recognized tag, and for an unrecognized tag one generic
\* fallback, the same whichever kind of failure occurred.
C19_FallbackByTagAlone ==
    (called = "generate_enemy" /\ ObtainFailed(last.args.gen))
    =>
    LET biome == last.args.biome
    IN /\ biome \in DOMAIN fallback_enemies =>
            last.ret = JsonObject(fallback_enemies[biome])
       /\ \A other \in Generators :
            ObtainFailed(other) => generate_enemy(biome, other) = last.ret

\* the ranges the prompt of generate_enemy documents (lines 76-81)
InDocumentedRanges(d) ==
    /\ required_fields \subseteq DOMAIN d
    /\ d.hp \in 50..100
    /\ d.mp \in 10..40
    /\ d.strength \in 8..20
    /\ d.magic \in 8..20
    /\ d.speed \in 5..15
    /\ d.weakness \in {fire, ice, thunder}

\* C20: every descriptor generate_enemy returns has all eight required fields
\* with values in the documented ranges (hp 50..100, mp 10..40, strength and
\* magic 8..20, speed 5..15, weakness fire, ice or thunder); a generated
\* descriptor outside them is replaced by a fallback and no Character is
\* constructed from it.
C20_DescriptorInRange ==
    /\ called = "generate_enemy" =>
         is_dict(last.ret) /\ InDocumentedRanges(last.ret.value)
    /\ pc = "battle" =>
         /\ enemy.max_hp \in 50..100 /\ enemy.hp = enemy.max_hp
         /\ enemy.max_mp \in 10..40 /\ enemy.mp = enemy.max_mp
         /\ enemy.strength \in 8..20
         /\ enemy.magic \in 8..20
         /\ enemy.speed \in 5..15
         /\ enemy.weakness \in {fire, ice, thunder}

(***************************************************************************)
(* Termination of the battle (LiveSpec).                                   *)
(***************************************************************************)
\* the step is a player turn that resolves an attack or a damaging cast
PlayerDamages ==
    /\ IsPlayerTurn /\ last'.ret = Returned(TRUE)
    /\ \/ last'.args.action = "attack"
       \/ last'.args.action = "magic" /\ last'.args.spell_choice \in DamagingKeys
\* the step is an enemy turn that resolves an attack or a damaging cast
EnemyDamages == IsEnemyTurn /\ last'.ret.kind \in {"attack", "cast"}
\* run has returned with one combatant at hp 0
Ended == pc = "done" /\ (player.hp = 0 \/ enemy.hp = 0)
\* the cheapest spell and the strongest heal of the catalog
MinSpellCost ==
    CHOOSE c \in { SPELLS[k].mp_cost : k \in DOMAIN SPELLS } :
        \A k \in DOMAIN SPELLS : c <= SPELLS[k].mp_cost
MaxHealPower ==
    CHOOSE h \in { SPELLS[k].power : k \in HealingKeys } :
        \A k \in HealingKeys : h >= SPELLS[k].power
\* the hp a combatant can still lose: what it has and what its mp can heal
Potential(c) == c.hp + MaxHealPower * (c.mp \div MinSpellCost)

\* the potential the combatant had when the battle was constructed
InitialPotential(c) ==
    Potential(CHOOSE x \in { en.player : en \in LiveEncounters }
                          \cup { en.enemy : en \in LiveEncounters } :
                  x.name = c.name)
\* the damaging actions of the combatant the log records
DamagingActionsOf(c) ==
    Cardinality({ i \in EntriesOf(c.name) : battle_log[i].kind \in {"attack", "cast"} })

\* C15: when at least one side always eventually performs a damaging action,
\* Battle.run reaches the ended state (one combatant at hp 0) after finitely
\* many ticks.  The reason is checked with it: every damaging action lowers
\* the potential of the side it hits, no step raises a potential, so the
\* damaging actions of one side never outnumber the potential the other side
\* has lost since the battle began, and a battle with a combatant at hp 0
\* ends.
C15_Termination ==
    /\ [][PlayerDamages => Potential(enemy') < Potential(enemy)]_vars
    /\ [][EnemyDamages => Potential(player') < Potential(player)]_vars
    /\ [][/\ Potential(player') <= Potential(player)
          /\ Potential(enemy') <= Potential(enemy)]_vars
    /\ [](/\ DamagingActionsOf(player) + Potential(enemy) <= InitialPotential(enemy)
          /\ DamagingActionsOf(enemy) + Potential(player) <= InitialPotential(player))
    /\ (player.hp = 0 \/ enemy.hp = 0) ~> Ended
    /\ (([]<><<PlayerDamages>>_vars) \/ ([]<><<EnemyDamages>>_vars)) => <>Ended

\* a battle has ended in which the enemy healed itself and the player was
\* hit, after more ticks than the fastest kill takes
C15_Witness ==
    /\ Ended
    /\ turn_count >= 8
    /\ \E i \in 1..Len(battle_log) :
         battle_log[i].kind = "heal" /\ battle_log[i].actor = enemy.name
    /\ \E i \in 1..Len(battle_log) :
         battle_log[i].kind = "attack" /\ battle_log[i].actor = enemy.name
    /\ Len(battle_log) >= 5

(***************************************************************************)
(* Mana within one battle (LiveSpec).                                      *)
(***************************************************************************)
\* the combatants the battles of LiveSpec start from
LiveCombatants ==
    { en.player : en \in LiveEncounters } \cup { en.enemy : en \in LiveEncounters }
\* the mp the combatant had when the battle was constructed
InitialMp(c) == (CHOOSE x \in LiveCombatants : x.name = c.name).mp
\* the casts of the combatant the log records: heals and damaging casts
CastsOf(c) ==
    Cardinality({ i \in EntriesOf(c.name) : battle_log[i].kind \in {"cast", "heal"} })

\* C21: within one battle no step raises the mp of either combatant, and
\* the number of casts each side has performed is at most its initial mp
\* divided by 8 (the cheapest cost of the catalog), rounded down.
C21_MpNeverRises ==
    /\ [][player'.mp <= player.mp /\ enemy'.mp <= enemy.mp]_vars
    /\ [](MinSpellCost = 8)
    /\ [](\A c \in {player, enemy} : CastsOf(c) <= InitialMp(c) \div 8)

\* both sides have cast as often as their mana allows, and the player's
\* next cast has just been refused for lack of mp
C21_Witness ==
    /\ \A c \in {player, enemy} :
         /\ CastsOf(c) = InitialMp(c) \div 8
         /\ CastsOf(c) > 0
         /\ c.mp < InitialMp(c)
    /\ called = "execute_player_turn"
    /\ last.args.action = "magic" /\ last.args.spell_choice \in DOMAIN SPELLS
    /\ last.ret = Returned(FALSE)

(***************************************************************************)
(* The enemy's cast with the catalog of characters.py (BuiltinTurnSpec).   *)
(***************************************************************************)
\* C22: with the built-in catalog, enemy_turn attempts a cast exactly when
\* the roll is 0.7 or more and the enemy's mp is at least 10; the enemy can
\* then pay for the ability drawn, whichever it is, and the turn resolves to
\* that ability's paid cast.  An attack is resolved only when it was forced
\* by the roll or by mp below 10, never as the fall-back of an attempted cast.
C22_CastNeverFallsBack ==
    [][IsEnemyTurn =>
         LET key == last'.args.spell_key
             attempted == last'.args.roll >= AttackThreshold /\ enemy.mp >= MinCastMp
         IN /\ \A k \in DOMAIN SPELLS : SPELLS[k].mp_cost <= 10
            /\ (key \in DOMAIN SPELLS) <=> attempted
            /\ attempted =>
                 /\ enemy.mp >= 10
                 /\ use_mp(enemy, SPELLS[key].mp_cost).ret
                 /\ EnemyCast(SPELLS[key])
                 /\ last'.ret.kind \in {"cast", "heal"}
                 /\ last'.ret.spell = SPELLS[key].name
            /\ last'.ret.kind = "attack" => ~attempted]_vars

\* the enemy had exactly 10 mp, drew a spell that costs 10 and cast it
C22_Witness ==
    /\ EnemyTurnTaken
    /\ last.args.roll >= AttackThreshold
    /\ last.args.spell_key \in DamagingKeys
    /\ LastMessage.kind = "cast" /\ LastMessage.amount > 0
    /\ enemy.mp = 0 /\ enemy.max_mp = 20

(***************************************************************************)
(* The player's no-op while both are ready (LiveSpec).                     *)
(***************************************************************************)
\* both gauges are full and the player is the one to act first
Stalled ==
    /\ player.atb_gauge = 100 /\ enemy.atb_gauge = 100
    /\ player.speed >= enemy.speed
    /\ is_alive(player) /\ is_alive(enemy)
\* the step is a prompt of the player that returns False
PlayerNoOp == IsPlayerTurn /\ last'.ret = Returned(FALSE)

\* C23: with both gauges at 100 and player.speed >= enemy.speed, a no-op of
\* the player changes no combatant and no log entry and sends the loop back
\* to its head; the next tick leaves both gauges at 100, every hp and mp as
\* it was, and prompts the player again; no enemy turn is resolved in that
\* situation and run does not return in it.  The situation is left only by
\* a prompt of the player that returns True: hence, while every prompt is a
\* no-op, the enemy never acts and the battle never ends.
C23_NoOpStallsEnemy ==
    /\ [][(Stalled /\ PlayerNoOp) =>
            /\ pc = "player_first" /\ pc' = "loop"
            /\ player' = player /\ enemy' = enemy
            /\ battle_log' = battle_log]_vars
    /\ [][(Stalled /\ pc = "loop") =>
            /\ IsTick /\ pc' = "player_first"
            /\ player' = player /\ enemy' = enemy
            /\ battle_log' = battle_log]_vars
    /\ [][Stalled => ~IsEnemyTurn /\ pc' # "done"]_vars
    /\ [](Stalled => pc \in {"loop", "player_first"})
    /\ [][(Stalled /\ ~Stalled') =>
            IsPlayerTurn /\ last'.ret = Returned(TRUE)]_vars

\* a no-op in a row of several of a player as fast as the enemy, prompted
\* with both gauges full: the enemy, ready since the second tick, has not
\* acted
C23_Witness ==
    /\ Stalled /\ pc = "loop"
    /\ called = "execute_player_turn" /\ last.ret = Returned(FALSE)
    /\ turn_count = MaxLiveTurns
    /\ battle_log = << >>
    /\ enemy.hp = enemy.max_hp /\ player.hp = player.max_hp
    /\ player.speed = enemy.speed

(***************************************************************************)
(* Turn cadence (CadenceSpec).                                             *)
(***************************************************************************)
\* ceil(100 / s) for s > 0: the ticks a gauge reset to 0 needs to fill
TicksPerTurn(s) == (100 + s - 1) \div s
\* the turns of the combatant the log records
TurnsOf(c) == Cardinality(EntriesOf(c.name))

\* C24: when both sides consume every turn, a combatant of speed s > 0
\* becomes ready on exactly the ticks that are multiples of ceil(100/s),
\* the ceil(100/s)-th tick after each reset of its gauge to 0: between
\* iterations its gauge is s times the ticks since then and its turns number
\* the ticks so far divided by ceil(100/s).  The combatant with the strictly
\* higher speed has at no moment resolved fewer turns than the other, and
\* two speeds with the same ceil(100/s) have resolved equally many turns
\* after every iteration.
C24_TurnCadence ==
    /\ [][IsTick =>
            \A c \in {player', enemy'} :
                c.speed > 0 =>
                    (c.atb_gauge = 100 <=> turn_count' % TicksPerTurn(c.speed) = 0)]_vars
    /\ [](pc = "loop" =>
            \A c \in {player, enemy} :
                c.speed > 0 =>
                    /\ c.atb_gauge = (turn_count % TicksPerTurn(c.speed)) * c.speed
                    /\ TurnsOf(c) = turn_count \div TicksPerTurn(c.speed))
    /\ [](player.speed > enemy.speed => TurnsOf(player) >= TurnsOf(enemy))
    /\ [](enemy.speed > player.speed => TurnsOf(enemy) >= TurnsOf(player))
    /\ []((pc = "loop" /\ TicksPerTurn(player.speed) = TicksPerTurn(enemy.speed))
            => TurnsOf(player) = TurnsOf(enemy))

\* speeds 10 and 11 after 20 ticks: two turns each, the second of the
\* slower one resolved last
C24_Witness ==
    /\ player.speed = 10 /\ enemy.speed = 11
    /\ pc = "loop" /\ turn_count = 20
    /\ TurnsOf(player) = 2 /\ TurnsOf(enemy) = 2
    /\ called = "execute_player_turn"
    /\ player.atb_gauge = 0 /\ enemy.atb_gauge = 0

====
